---- MODULE Spec2Model ----
(***************************************************************************)
(* DazzleTest monitor-control core: the Monitor facades of                 *)
(* app/mccs/mccs.py and app/mccs/monitor.py over the platform VCP          *)
(* transports (app/mccs/vcp/vcp_linux.py, app/mccs/vcp/vcp_windows.py),    *)
(* and the DDC/CI frame codec of LinuxVCP.                                 *)
(*                                                                         *)
(* Times are in milliseconds.  Exceptions are modelled by their class      *)
(* name; "none" means the call returned normally.                          *)
(***************************************************************************)
EXTENDS Integers, Sequences, FiniteSets, TLC

(* ---------------------------- bounds ----------------------------------- *)
\* values a caller passes to set: 0..MaxValue
MaxValue == 2
\* current / maximum values a monitor reports: 0..MaxReported
MaxReported == 1
\* the caller idles and starts calls only while less than MaxTime ms have passed
MaxTime == 60
\* value of time.time() when the model starts (any instant after 1970)
Epoch == 1000
\* the short capability fragments of a reply round hold at most MaxFragment bytes
MaxFragment == 1
\* the codec specification draws value words from 0..MaxWord
MaxWord == 300
\* rounds of a capabilities retrieval whose reply is unconstrained
FreeRounds == 2

(* ----------------------- program constants ----------------------------- *)
GET_VCP_HEADER_LENGTH == 2
PROTOCOL_FLAG == 128
GET_VCP_CMD == 1
GET_VCP_REPLY == 2
SET_VCP_CMD == 3
GET_VCP_CAPS_CMD == 243
GET_VCP_CAPS_REPLY == 227
GET_VCP_TIMEOUT == 40
CMD_RATE == 50
DDCCI_ADDR == 55
HOST_ADDRESS == 81
loop_count_limit == 40

(* ----------------------- Feature Registry ------------------------------ *)
\* VCPDefinition(name, value, rw, type); rw is the set of ReadWriteFlag bits
\* (a name is kept as a tuple of text pieces)
DEGAUSS ==
    [name |-> <<"Degauss">>, value |-> 1, rw |-> {"WRITE"}, type |-> "NONCONTINUOUS"]

LUMINANCE ==
    [name |-> <<"Luminance">>, value |-> 16, rw |-> {"READ", "WRITE"},
     type |-> "CONTINUOUS"]

BACKLIGHT_LEVEL_WHITE ==
    [name |-> <<"Backlight level: White">>, value |-> 107, rw |-> {"READ", "WRITE"},
     type |-> "CONTINUOUS"]

\* the definition _parse_capabilities synthesizes for a code that is not
\* registered; token is the text of the code as it stands in the string (the
\* sequence of its characters)
UnknownDefinition(token, code) ==
    [name |-> <<"VCP ", token, " (unknown)">>, value |-> code, rw |-> {},
     type |-> "NONCONTINUOUS"]

\* the definitions callers pass to the facade in this model
Definitions == {DEGAUSS, LUMINANCE, UnknownDefinition(<<"1", "4">>, 20)}

Codes == {d.value : d \in Definitions}

readable(d) == "READ" \in d.rw

writeable(d) == "WRITE" \in d.rw

(* --------------------------- checksum ---------------------------------- *)
RECURSIVE BitXor(_, _)
BitXor(a, b) ==
    IF a = 0 THEN b
    ELSE IF b = 0 THEN a
    ELSE ((a + b) % 2) + 2 * BitXor(a \div 2, b \div 2)

RECURSIVE XorFold(_, _)
XorFold(acc, data) ==
    IF data = <<>> THEN acc ELSE XorFold(BitXor(acc, Head(data)), Tail(data))

\* mutant of get_checksum: an additive checksum
RECURSIVE SumFold(_, _)
SumFold(acc, data) ==
    IF data = <<>> THEN acc ELSE SumFold((acc + Head(data)) % 256, Tail(data))

get_checksum_sum(data) == SumFold(0, data)

\* LinuxVCP.get_checksum: XOR of all bytes of data, starting from 0x00
get_checksum(data) == XorFold(0, data)

(* ------------------------- frame encoders ------------------------------ *)
\* set_vcp_feature, lines 183-203: the message it builds for (code, value)
SetVcpFeatureMessage(code, value) ==
    LET payload_data == <<SET_VCP_CMD, code, (value \div 256) % 256, value % 256>>
        message == <<HOST_ADDRESS, Len(payload_data) + PROTOCOL_FLAG>> \o payload_data
        checksum_data == <<DDCCI_ADDR * 2>> \o message
    IN Append(message, get_checksum(checksum_data))

\* get_vcp_feature, lines 228-242: the message it builds for code
GetVcpFeatureMessage(code) ==
    LET payload_data == <<GET_VCP_CMD, code>>
        message == <<HOST_ADDRESS, Len(payload_data) + PROTOCOL_FLAG>> \o payload_data
        checksum_data == <<DDCCI_ADDR * 2>> \o message
    IN Append(message, get_checksum(checksum_data))

\* get_vcp_capabilities, lines 339-349: the request of one round; the checksum
\* is taken over the message alone
CapabilitiesRequestMessage(offset) ==
    LET data == <<GET_VCP_CAPS_CMD, (offset \div 256) % 256, offset % 256>>
        message == <<HOST_ADDRESS, Len(data) + PROTOCOL_FLAG>> \o data
    IN Append(message, get_checksum(message))

(* ----------------------------- state ----------------------------------- *)
VARIABLES
    platform,        \* sys.platform: which class app.mccs.vcp.VCP is
    facade,          \* which Monitor class wraps the VCP: "mccs" or "monitor"
    CHECKSUM_ERRORS, \* LinuxVCP.CHECKSUM_ERRORS
    in_ctx,          \* mccs.Monitor._in_ctx
    code_maximum,    \* Monitor.code_maximum / Monitor._code_maximum (NoMax: no entry)
    cap_cache,       \* Monitor._capabilities
    vcp,             \* the VCP object: fd, handle, last_set; held: handles the OS holds for it
    now,             \* time.time()
    pc,              \* "idle", or "caps" inside LinuxVCP.get_vcp_capabilities (the
                     \* encoders' specification: "codec", "encoded", "flipped")
    caps,            \* locals of get_vcp_capabilities: offset, loop_count, caps_str
    call,            \* the facade call made last
    result,          \* its outcome: exc, ret
    io,              \* transport operations it performed: opens, closes, reads, writes,
                     \* and the Get-Feature / Set-Feature requests among the writes
    frames,          \* frames it wrote to the bus, in order (LinuxVCP); of a
                     \* capabilities retrieval, the frame of the last round
    requests,        \* the last two requests handed to the LinuxVCP since the Monitor
                     \* was opened (monitor.Monitor: ever): op, and at, the time its
                     \* frame was written (NoMax: none was written)
    reply,           \* what the monitor answers to the request of the call made last
                     \* (of a capabilities retrieval: of its last round)
    resolved,        \* per code, what the first successful _get_vcp_maximum returned
    registry,        \* per member of VCPDefinitions (by code), its list values
    text,            \* the capability string the monitors of the parser's
                     \* specification answer with, and its callers parse
    caches,          \* there: per monitor.Monitor object, its _capabilities
    parses,          \* there: what the calls of _parse_capabilities returned, in order
    caught,          \* there: the exception supports_vcp caught in the call made last
    devices,         \* the enumeration's specification: what the platform lists (the
                     \* i2c devices of udev, the HMONITORs of EnumDisplayMonitors),
                     \* each with what opening it gives
    found,           \* there: what get_vcps / get_monitors did when called last
    steps,           \* the test runner's specification: TestDataTableModel._data,
                     \* the steps of the table, each by its backlight
    manager,         \* there: the fields of the TestDisplayManager
    display,         \* there: the Monitor of the TestDisplay, and the backlight
                     \* level and maximum of the panel behind it
    note             \* there: what the runner's operation made last did

parser_vars == <<registry, text, caches, parses, caught>>

enum_vars == <<devices, found>>

runner_vars == <<steps, manager, display, note>>

vars == <<platform, facade, CHECKSUM_ERRORS, in_ctx, code_maximum, cap_cache, vcp, now,
          pc, caps, call, result, io, frames, requests, reply, resolved, parser_vars,
          enum_vars, runner_vars>>

NoMax == -1

NoIO == [opens |-> 0, closes |-> 0, reads |-> 0, writes |-> 0, gets |-> 0, sets |-> 0]

AddIO(a, b) ==
    [opens |-> a.opens + b.opens, closes |-> a.closes + b.closes,
     reads |-> a.reads + b.reads, writes |-> a.writes + b.writes,
     gets |-> a.gets + b.gets, sets |-> a.sets + b.sets]

\* what the operating system answers to the calls of one facade operation
EnterResults == {"ok", "open_perm", "open_err", "ioctl_err", "wake_err"}

\* the answers to one facade operation: to the open of its first and of its
\* second with block, to the close of either, to Get-Feature and to Set-Feature
MkEnv(en, en2, cl, st, r) ==
    [enter |-> en, enter2 |-> en2, close |-> cl, set |-> st,
     get |-> r.get, cur |-> r.cur, max |-> r.max]

NoReply == [get |-> "ok", cur |-> 0, max |-> 0]

FailReply == [get |-> "fail", cur |-> 0, max |-> 0]

Env0 == MkEnv("ok", "ok", "ok", "ok", NoReply)

\* an answer that is never asked for has its first value: mccs.Monitor opens no
\* VCP inside an operation; LinuxVCP.__exit__ passes no error of close on, and
\* its set_vcp_feature and get_vcp_feature get to no exchange
EnterFailures(f) == IF f = "mccs" THEN {} ELSE EnterResults \ {"ok"}

Closes(p, f) == IF f = "mccs" \/ p = "linux" THEN {"ok"} ELSE {"ok", "fail"}

Sets(p) == IF p = "linux" THEN {"ok"} ELSE {"ok", "fail"}

Replies(p) ==
    IF p = "linux" THEN {NoReply}
    ELSE {FailReply} \cup [get : {"ok"}, cur : 0..MaxReported, max : 0..MaxReported]

MaxReplies(p) ==
    IF p = "linux" THEN {NoReply}
    ELSE {FailReply} \cup [get : {"ok"}, cur : {0}, max : 0..MaxReported]

CapsReplies(p) == IF p = "linux" THEN {NoReply} ELSE {NoReply, FailReply}

\* the courses of an operation with one exchange, answered from replies
ReadEnv(p, f, replies) ==
    {MkEnv(en, "ok", "ok", "ok", NoReply) : en \in EnterFailures(f)}
    \cup {MkEnv("ok", "ok", cl, "ok", r) : cl \in Closes(p, f), r \in replies}

\* the courses of a set that fetches no maximum
WriteEnv(p, f) ==
    {MkEnv("ok", en2, "ok", "ok", NoReply) : en2 \in EnterFailures(f)}
    \cup {MkEnv("ok", "ok", cl, st, NoReply) : cl \in Closes(p, f), st \in Sets(p)}

\* the courses of a set that fetches the maximum first
FetchWriteEnv(p, f) ==
    {MkEnv(en, "ok", "ok", "ok", NoReply) : en \in EnterFailures(f)}
    \cup {MkEnv("ok", en2, cl, "ok", r) :
             en2 \in EnterFailures(f), cl \in Closes(p, f), r \in MaxReplies(p)}
    \cup {MkEnv("ok", "ok", cl, st, r) :
             cl \in Closes(p, f), st \in Sets(p), r \in MaxReplies(p)}

(* ------------------- what the monitor answers -------------------------- *)
\* one answer of the monitor, as the VCP would read it: whether the write of the
\* request and the reads of the reply succeed, the length field of the header
\* (badlen), the reply code, the echoed code or offset, whether the checksum
\* byte matches, and the fields of the payload
NoAnswer ==
    [kind |-> "none", wr |-> "ok", rd |-> "ok", badlen |-> "none", code |-> 0,
     echo |-> "same", ckok |-> TRUE, frag |-> <<>>, result |-> 0, cur |-> 0, max |-> 0]

\* a Get VCP Feature reply: reply_code, vcp_opcode (echo), result_code, the
\* checksum, feature_current, feature_max
FeatureAnswer(code, echo, res, ckok, cur, max) ==
    [NoAnswer EXCEPT !.kind = "feature", !.code = code, !.echo = echo, !.result = res,
                     !.ckok = ckok, !.cur = cur, !.max = max]

\* the Get VCP Feature replies a monitor on the I2C bus gives in this model: the
\* well-formed ones, and one for each way a reply can be off
LinuxAnswers ==
    {FeatureAnswer(GET_VCP_REPLY, "same", 0, TRUE, c, m) :
        c \in 0..MaxReported, m \in 0..MaxReported}
    \cup {FeatureAnswer(GET_VCP_CAPS_REPLY, "same", 0, TRUE, 0, 0),
          FeatureAnswer(GET_VCP_REPLY, "other", 0, TRUE, 0, 0),
          FeatureAnswer(GET_VCP_REPLY, "same", 1, TRUE, 0, 0),
          FeatureAnswer(GET_VCP_REPLY, "same", 0, FALSE, 0, 0)}

\* what GetVCPFeatureAndVCPFeatureReply hands back (the API hides the frame)
ApiAnswer(e) ==
    IF e.get = "ok" THEN FeatureAnswer(GET_VCP_REPLY, "same", 0, TRUE, e.cur, e.max)
    ELSE [FeatureAnswer(GET_VCP_REPLY, "same", 0, TRUE, 0, 0) EXCEPT !.rd = "fail"]

\* a reply round of get_vcp_capabilities
CapsAnswer(r) ==
    [NoAnswer EXCEPT !.kind = "caps", !.wr = r.wr, !.rd = r.rd, !.badlen = r.badlen,
                     !.code = r.code, !.echo = r.echo, !.ckok = r.ckok, !.frag = r.frag]

(* ------------------------- LinuxVCP ------------------------------------ *)
\* __enter__._cleanup_fd
cleanup_fd(v) == IF v.fd # 0 THEN [v EXCEPT !.held = @ - 1] ELSE v

\* mutant of LinuxVCP_enter: the error paths reset fd without closing it
LinuxVCP_enter_leak(v, res) ==
    LET opened == [v EXCEPT !.fd = 3, !.held = @ + 1]
    IN  CASE res = "open_perm" ->
               [vcp |-> [v EXCEPT !.fd = 0], exc |-> "VCPPermissionError",
                io |-> [NoIO EXCEPT !.opens = 1]]
          [] res = "open_err" ->
               [vcp |-> [v EXCEPT !.fd = 0], exc |-> "VCPIOError",
                io |-> [NoIO EXCEPT !.opens = 1]]
          [] res = "ioctl_err" ->
               [vcp |-> [opened EXCEPT !.fd = 0], exc |-> "VCPIOError",
                io |-> [NoIO EXCEPT !.opens = 1]]
          [] res = "wake_err" ->
               [vcp |-> [opened EXCEPT !.fd = 0], exc |-> "VCPIOError",
                io |-> [NoIO EXCEPT !.opens = 1, !.reads = 1]]
          [] OTHER ->
               [vcp |-> opened, exc |-> "none",
                io |-> [NoIO EXCEPT !.opens = 1, !.reads = 1]]

\* LinuxVCP.__enter__ (the second definition of that name, which the class keeps):
\* os.open, ioctl(I2C_SLAVE), read_bytes(1); every except branch closes self.fd
LinuxVCP_enter(v, res) ==
    LET opened == [v EXCEPT !.fd = 3, !.held = @ + 1]
    IN  CASE res = "open_perm" ->
               [vcp |-> [cleanup_fd(v) EXCEPT !.fd = 0], exc |-> "VCPPermissionError",
                io |-> [NoIO EXCEPT !.opens = 1, !.closes = IF v.fd # 0 THEN 1 ELSE 0]]
          [] res = "open_err" ->
               [vcp |-> [cleanup_fd(v) EXCEPT !.fd = 0], exc |-> "VCPIOError",
                io |-> [NoIO EXCEPT !.opens = 1, !.closes = IF v.fd # 0 THEN 1 ELSE 0]]
          [] res = "ioctl_err" ->
               [vcp |-> [cleanup_fd(opened) EXCEPT !.fd = 0], exc |-> "VCPIOError",
                io |-> [NoIO EXCEPT !.opens = 1, !.closes = 1]]
          [] res = "wake_err" ->
               [vcp |-> [cleanup_fd(opened) EXCEPT !.fd = 0], exc |-> "VCPIOError",
                io |-> [NoIO EXCEPT !.opens = 1, !.reads = 1, !.closes = 1]]
          [] OTHER ->
               [vcp |-> opened, exc |-> "none",
                io |-> [NoIO EXCEPT !.opens = 1, !.reads = 1]]

\* mutant of LinuxVCP_exit: the descriptor is left open
LinuxVCP_exit_keep(v, res, inflight) == [vcp |-> v, exc |-> "none", io |-> NoIO]

\* LinuxVCP.__exit__: os.close(self.fd) when fd is set (an error of close is only
\* logged, the descriptor is gone either way), fd = 0; returns False
LinuxVCP_exit(v, res, inflight) ==
    IF v.fd # 0
    THEN [vcp |-> [v EXCEPT !.fd = 0, !.held = @ - 1], exc |-> "none",
          io |-> [NoIO EXCEPT !.closes = 1]]
    ELSE [vcp |-> v, exc |-> "none", io |-> NoIO]

\* LinuxVCP.rate_limt: the time it sleeps
rate_limt(last_set, time) ==
    IF last_set = NoMax THEN 0
    ELSE LET rate_delay == CMD_RATE - time - last_set
         IN  IF rate_delay > 0 THEN rate_delay ELSE 0

\* LinuxVCP.set_vcp_feature: its first statement calls self.rate_limit(), a name
\* neither LinuxVCP nor BaseVCP defines (the method is rate_limt), so the call
\* raises AttributeError before the message is built or written
LinuxVCP_set_vcp_feature(v, code, value, e) ==
    [vcp |-> v, exc |-> "AttributeError", io |-> NoIO, frames |-> <<>>,
     reqs |-> <<[op |-> "set", at |-> NoMax]>>]

\* LinuxVCP.get_vcp_feature: its first statement calls self.rate_limit() as well
LinuxVCP_get_vcp_feature(v, code, e) ==
    [vcp |-> v, exc |-> "AttributeError", cur |-> NoMax, max |-> NoMax, io |-> NoIO,
     frames |-> <<>>, reqs |-> <<[op |-> "get", at |-> NoMax]>>]

(* ------------------------- WindowsVCP ---------------------------------- *)
\* WindowsVCP.__enter__: GetNumberOfPhysicalMonitorsFromHMONITOR,
\* GetPhysicalMonitorsFromHMONITOR; handle is set only when both succeed
WindowsVCP_enter(v, res) ==
    IF res = "ok"
    THEN [vcp |-> [v EXCEPT !.handle = 1, !.held = @ + 1], exc |-> "none",
          io |-> [NoIO EXCEPT !.opens = 1]]
    ELSE [vcp |-> v, exc |-> "VCPError", io |-> [NoIO EXCEPT !.opens = 1]]

\* WindowsVCP.__exit__: DestroyPhysicalMonitor when a handle is set; its failure
\* raises VCPError unless an exception is already in flight; handle = None
\* (held counts the handles not yet passed to DestroyPhysicalMonitor)
WindowsVCP_exit(v, res, inflight) ==
    IF v.handle # 0
    THEN IF res = "ok"
         THEN [vcp |-> [v EXCEPT !.handle = 0, !.held = @ - 1], exc |-> "none",
               io |-> [NoIO EXCEPT !.closes = 1]]
         ELSE [vcp |-> [v EXCEPT !.handle = 0, !.held = @ - 1],
               exc |-> IF inflight THEN "none" ELSE "VCPError",
               io |-> [NoIO EXCEPT !.closes = 1]]
    ELSE [vcp |-> v, exc |-> "none", io |-> NoIO]

\* WindowsVCP.set_vcp_feature: one SetVCPFeature call on the handle
WindowsVCP_set_vcp_feature(v, code, value, e) ==
    IF v.handle = 0
    THEN [vcp |-> v, exc |-> "VCPError", io |-> NoIO, frames |-> <<>>, reqs |-> <<>>]
    ELSE [vcp |-> v, exc |-> IF e.set = "ok" THEN "none" ELSE "VCPError",
          io |-> [NoIO EXCEPT !.writes = 1, !.sets = 1], frames |-> <<>>, reqs |-> <<>>]

\* WindowsVCP.get_vcp_feature: one GetVCPFeatureAndVCPFeatureReply call
WindowsVCP_get_vcp_feature(v, code, e) ==
    IF v.handle = 0
    THEN [vcp |-> v, exc |-> "VCPError", cur |-> NoMax, max |-> NoMax, io |-> NoIO,
          frames |-> <<>>, reqs |-> <<>>]
    ELSE IF e.get = "ok"
    THEN [vcp |-> v, exc |-> "none", cur |-> e.cur, max |-> e.max,
          io |-> [NoIO EXCEPT !.writes = 1, !.reads = 1, !.gets = 1], frames |-> <<>>,
          reqs |-> <<>>]
    ELSE [vcp |-> v, exc |-> "VCPError", cur |-> NoMax, max |-> NoMax,
          io |-> [NoIO EXCEPT !.writes = 1, !.gets = 1], frames |-> <<>>, reqs |-> <<>>]

(* ------------------- app.mccs.vcp.VCP (by platform) -------------------- *)
VCP_enter(v, res) ==
    IF platform = "linux" THEN LinuxVCP_enter(v, res) ELSE WindowsVCP_enter(v, res)

VCP_exit(v, res, inflight) ==
    IF platform = "linux" THEN LinuxVCP_exit(v, res, inflight)
    ELSE WindowsVCP_exit(v, res, inflight)

VCP_set_vcp_feature(v, code, value, e) ==
    IF platform = "linux" THEN LinuxVCP_set_vcp_feature(v, code, value, e)
    ELSE WindowsVCP_set_vcp_feature(v, code, value, e)

VCP_get_vcp_feature(v, code, e) ==
    IF platform = "linux" THEN LinuxVCP_get_vcp_feature(v, code, e)
    ELSE WindowsVCP_get_vcp_feature(v, code, e)

(* --------------------- mccs.py: class Monitor -------------------------- *)
\* the outcome of a facade method: the VCP and the cache after it, the exception
\* it raised, the value it returned, what it did on the transport
Out(v, cm, exc, ret, i, fr, rq) ==
    [vcp |-> v, cm |-> cm, exc |-> exc, ret |-> ret, io |-> i, frames |-> fr, reqs |-> rq]

Raise(exc) == Out(vcp, code_maximum, exc, NoMax, NoIO, <<>>, <<>>)

\* mutant of mccs_get_vcp_maximum: the cache is not consulted
mccs_get_vcp_maximum_nocache(d, e) ==
    IF ~in_ctx THEN Raise("AssertionError")
    ELSE IF ~readable(d) THEN Raise("TypeError")
    ELSE LET g == VCP_get_vcp_feature(vcp, d.value, e)
         IN  IF g.exc # "none"
             THEN Out(g.vcp, code_maximum, g.exc, NoMax, g.io, g.frames, g.reqs)
             ELSE Out(g.vcp, [code_maximum EXCEPT ![d.value] = g.max], "none", g.max,
                      g.io, g.frames, g.reqs)

\* mccs.Monitor._get_vcp_maximum
mccs_get_vcp_maximum(d, e) ==
    IF ~in_ctx THEN Raise("AssertionError")
    ELSE IF ~readable(d) THEN Raise("TypeError")
    ELSE IF code_maximum[d.value] # NoMax
    THEN Out(vcp, code_maximum, "none", code_maximum[d.value], NoIO, <<>>, <<>>)
    ELSE LET g == VCP_get_vcp_feature(vcp, d.value, e)
         IN  IF g.exc # "none"
             THEN Out(g.vcp, code_maximum, g.exc, NoMax, g.io, g.frames, g.reqs)
             ELSE Out(g.vcp, [code_maximum EXCEPT ![d.value] = g.max], "none", g.max,
                      g.io, g.frames, g.reqs)

\* mutant of mccs_set_vcp_value: the range check is value >= maximum
mccs_set_vcp_value_ge(d, value, e) ==
    IF ~in_ctx THEN Raise("AssertionError")
    ELSE IF ~writeable(d) THEN Raise("TypeError")
    ELSE LET m == IF d.type = "CONTINUOUS" THEN mccs_get_vcp_maximum(d, e)
                  ELSE Raise("none")
         IN  IF m.exc # "none" THEN m
             ELSE IF d.type = "CONTINUOUS" /\ value >= m.ret
             THEN [m EXCEPT !.exc = "ValueError", !.ret = NoMax]
             ELSE LET s == VCP_set_vcp_feature(m.vcp, d.value, value, e)
                  IN  Out(s.vcp, m.cm, s.exc, NoMax, AddIO(m.io, s.io),
                          m.frames \o s.frames, m.reqs \o s.reqs)

\* mccs.Monitor._set_vcp_value
mccs_set_vcp_value(d, value, e) ==
    IF ~in_ctx THEN Raise("AssertionError")
    ELSE IF ~writeable(d) THEN Raise("TypeError")
    ELSE LET m == IF d.type = "CONTINUOUS" THEN mccs_get_vcp_maximum(d, e)
                  ELSE Raise("none")
         IN  IF m.exc # "none" THEN m
             ELSE IF d.type = "CONTINUOUS" /\ value > m.ret
             THEN [m EXCEPT !.exc = "ValueError", !.ret = NoMax]
             ELSE LET s == VCP_set_vcp_feature(m.vcp, d.value, value, e)
                  IN  Out(s.vcp, m.cm, s.exc, NoMax, AddIO(m.io, s.io),
                          m.frames \o s.frames, m.reqs \o s.reqs)

\* mutant of mccs_get_vcp_value: no access check
mccs_get_vcp_value_unchecked(d, e) ==
    IF ~in_ctx THEN Raise("AssertionError")
    ELSE LET g == VCP_get_vcp_feature(vcp, d.value, e)
         IN  Out(g.vcp, code_maximum, g.exc, g.cur, g.io, g.frames, g.reqs)

\* mccs.Monitor._get_vcp_value
mccs_get_vcp_value(d, e) ==
    IF ~in_ctx THEN Raise("AssertionError")
    ELSE IF ~readable(d) THEN Raise("TypeError")
    ELSE LET g == VCP_get_vcp_feature(vcp, d.value, e)
         IN  Out(g.vcp, code_maximum, g.exc, g.cur, g.io, g.frames, g.reqs)

(* -------------------- monitor.py: class Monitor ------------------------ *)
\* monitor.Monitor._get_vcp_maximum: opens the VCP itself around the exchange
monitor_get_vcp_maximum(d, e) ==
    IF ~readable(d) THEN Raise("TypeError")
    ELSE IF code_maximum[d.value] # NoMax
    THEN Out(vcp, code_maximum, "none", code_maximum[d.value], NoIO, <<>>, <<>>)
    ELSE LET en == VCP_enter(vcp, e.enter)
         IN  IF en.exc # "none"
             THEN Out(en.vcp, code_maximum, en.exc, NoMax, en.io, <<>>, <<>>)
             ELSE LET g == VCP_get_vcp_feature(en.vcp, d.value, e)
                      x == VCP_exit(g.vcp, e.close, g.exc # "none")
                      exc == IF g.exc # "none" THEN g.exc ELSE x.exc
                  IN  Out(x.vcp,
                          IF exc = "none" THEN [code_maximum EXCEPT ![d.value] = g.max]
                          ELSE code_maximum,
                          exc, IF exc = "none" THEN g.max ELSE NoMax,
                          AddIO(en.io, AddIO(g.io, x.io)), g.frames, g.reqs)

\* mutant of monitor_set_vcp_value: the value is written before the range check
monitor_set_vcp_value_late(d, value, e) ==
    IF ~writeable(d) THEN Raise("TypeError")
    ELSE LET m == IF d.type = "CONTINUOUS" THEN monitor_get_vcp_maximum(d, e)
                  ELSE Raise("none")
         IN  IF m.exc # "none" THEN m
             ELSE LET en == VCP_enter(m.vcp, e.enter2)
                  IN  IF en.exc # "none"
                      THEN Out(en.vcp, m.cm, en.exc, NoMax, AddIO(m.io, en.io),
                               m.frames, m.reqs)
                      ELSE LET s == VCP_set_vcp_feature(en.vcp, d.value, value, e)
                               x == VCP_exit(s.vcp, e.close, s.exc # "none")
                               late == d.type = "CONTINUOUS" /\ value > m.ret
                           IN  Out(x.vcp, m.cm,
                                   IF s.exc # "none" THEN s.exc
                                   ELSE IF x.exc # "none" THEN x.exc
                                   ELSE IF late THEN "ValueError" ELSE "none", NoMax,
                                   AddIO(m.io, AddIO(en.io, AddIO(s.io, x.io))),
                                   m.frames \o s.frames, m.reqs \o s.reqs)

\* monitor.Monitor._set_vcp_value
monitor_set_vcp_value(d, value, e) ==
    IF ~writeable(d) THEN Raise("TypeError")
    ELSE LET m == IF d.type = "CONTINUOUS" THEN monitor_get_vcp_maximum(d, e)
                  ELSE Raise("none")
         IN  IF m.exc # "none" THEN m
             ELSE IF d.type = "CONTINUOUS" /\ value > m.ret
             THEN [m EXCEPT !.exc = "ValueError", !.ret = NoMax]
             ELSE LET en == VCP_enter(m.vcp, e.enter2)
                  IN  IF en.exc # "none"
                      THEN Out(en.vcp, m.cm, en.exc, NoMax, AddIO(m.io, en.io),
                               m.frames, m.reqs)
                      ELSE LET s == VCP_set_vcp_feature(en.vcp, d.value, value, e)
                               x == VCP_exit(s.vcp, e.close, s.exc # "none")
                           IN  Out(x.vcp, m.cm,
                                   IF s.exc # "none" THEN s.exc ELSE x.exc, NoMax,
                                   AddIO(m.io, AddIO(en.io, AddIO(s.io, x.io))),
                                   m.frames \o s.frames, m.reqs \o s.reqs)

\* monitor.Monitor._get_vcp_value: a continuous feature's maximum is stored from
\* the same reply, inside the with block
monitor_get_vcp_value(d, e) ==
    IF ~readable(d) THEN Raise("TypeError")
    ELSE LET en == VCP_enter(vcp, e.enter)
         IN  IF en.exc # "none"
             THEN Out(en.vcp, code_maximum, en.exc, NoMax, en.io, <<>>, <<>>)
             ELSE LET g == VCP_get_vcp_feature(en.vcp, d.value, e)
                      x == VCP_exit(g.vcp, e.close, g.exc # "none")
                      exc == IF g.exc # "none" THEN g.exc ELSE x.exc
                  IN  Out(x.vcp,
                          IF g.exc = "none" /\ d.type = "CONTINUOUS"
                          THEN [code_maximum EXCEPT ![d.value] = g.max]
                          ELSE code_maximum,
                          exc, IF exc = "none" THEN g.cur ELSE NoMax,
                          AddIO(en.io, AddIO(g.io, x.io)), g.frames, g.reqs)

(* ----------------------- facade, by class ------------------------------ *)
Monitor_get_vcp_maximum(d, e) ==
    IF facade = "mccs" THEN mccs_get_vcp_maximum(d, e) ELSE monitor_get_vcp_maximum(d, e)

Monitor_set_vcp_value(d, value, e) ==
    IF facade = "mccs" THEN mccs_set_vcp_value(d, value, e)
    ELSE monitor_set_vcp_value(d, value, e)

Monitor_get_vcp_value(d, e) ==
    IF facade = "mccs" THEN mccs_get_vcp_value(d, e) ELSE monitor_get_vcp_value(d, e)

(* ------------------ capabilities retrieval (VCP) ----------------------- *)
\* mutant of valid_length: a length of 36 passes
valid_length_wide(length) == ~(length < 3 \/ length > 36)

\* the length check of a reply round: length < 3 or length > 35 is refused
valid_length(length) == ~(length < 3 \/ length > 35)

\* the capability fragment of n bytes in this model: its letter tells its
\* length, so that strings put together in another order differ
Fragment(n) == [i \in 1..n |-> 97 + (n % 26)]

\* bytes a capability fragment is made of in this model
FragBytes == {Fragment(n)[1] : n \in 1..33}

\* the short fragments, and the longest one a reply of valid length carries
\* (35 bytes less the reply code and the echoed offset)
Fragments ==
    {Fragment(n) : n \in 0..MaxFragment} \cup {Fragment(32)}

\* what the monitor answers in one round of get_vcp_capabilities
Round(wr, rd, badlen) ==
    [wr |-> wr, rd |-> rd, badlen |-> badlen, code |-> GET_VCP_CAPS_REPLY,
     echo |-> "same", ckok |-> TRUE, frag |-> <<>>]

\* one record for each course a round can take
RoundEnv ==
    {Round("fail", "ok", "none"), Round("ok", "fail_header", "none"),
     Round("ok", "fail_payload", "none"), Round("ok", "ok", "short"),
     [Round("ok", "ok", "long") EXCEPT !.frag = Fragment(33)]}
    \cup {[Round("ok", "ok", "none") EXCEPT !.code = GET_VCP_REPLY, !.ckok = k] :
             k \in BOOLEAN}
    \cup [wr : {"ok"}, rd : {"ok"}, badlen : {"none"}, code : {GET_VCP_CAPS_REPLY},
          echo : {"same", "zero"}, ckok : BOOLEAN, frag : Fragments]

\* the rounds after the first FreeRounds succeed with one byte or none
RoundEnvAt(loop_count) ==
    IF loop_count < FreeRounds THEN RoundEnv
    ELSE {[Round("ok", "ok", "none") EXCEPT !.frag = fr] : fr \in {<<>>, Fragment(1)}}

\* mutant of append_fragment: the fragment is put in front
append_fragment_front(caps_str, payload) == payload \o caps_str

\* caps_str += payload.decode("ASCII")
append_fragment(caps_str, payload) == caps_str \o payload

\* the outcome of one round: the locals after it, whether the method goes on,
\* the time it took, what it did on the transport
CapsOut(c, status, exc, dt, i, fr, rq) ==
    [caps |-> c, status |-> status, exc |-> exc, dt |-> dt, io |-> i, frames |-> fr,
     reqs |-> rq]

\* mutant of LinuxVCP_caps_round: the length field is checked as soon as the
\* header is read, before the payload is
LinuxVCP_caps_round_early(c, time, policy, r) ==
    LET n == c.loop_count + 1
        c1 == [c EXCEPT !.loop_count = n]
        data == CapabilitiesRequestMessage(c.offset)
        wrote == [NoIO EXCEPT !.writes = 1]
        read1 == [NoIO EXCEPT !.writes = 1, !.reads = 1]
        read2 == [NoIO EXCEPT !.writes = 1, !.reads = 2]
        rq == <<[op |-> "caps", at |-> time]>>
        length == CASE r.badlen = "short" -> 2
                    [] r.badlen = "long" -> 36
                    [] OTHER -> 3 + Len(r.frag)
        frag_len == length - 3
        echoed == IF r.echo = "same" THEN c.offset ELSE 0
    IN  IF r.wr = "fail"
        THEN CapsOut(c1, "raise", "VCPIOError", 0, wrote, <<>>,
                     <<[op |-> "caps", at |-> NoMax]>>)
        ELSE IF r.rd = "fail_header"
        THEN CapsOut(c1, "raise", "VCPIOError", GET_VCP_TIMEOUT, read1, <<data>>, rq)
        ELSE IF r.rd = "ok" /\ ~valid_length(length)
        THEN CapsOut(c1, "raise", "VCPIOError", GET_VCP_TIMEOUT, read1, <<data>>, rq)
        ELSE IF r.rd = "fail_payload"
        THEN CapsOut(c1, "raise", "VCPIOError", GET_VCP_TIMEOUT, read2, <<data>>, rq)
        ELSE IF ~r.ckok /\ policy = "strict"
        THEN CapsOut(c1, "raise", "VCPIOError", GET_VCP_TIMEOUT, read2, <<data>>, rq)
        ELSE IF r.code # GET_VCP_CAPS_REPLY
        THEN CapsOut(c1, "raise", "VCPIOError", GET_VCP_TIMEOUT, read2, <<data>>, rq)
        ELSE IF frag_len > 0
        THEN LET c2 == [c1 EXCEPT !.caps_str = append_fragment(@, r.frag),
                                  !.offset = echoed + frag_len]
             IN  IF n < loop_count_limit
                 THEN CapsOut(c2, "more", "none", GET_VCP_TIMEOUT, read2, <<data>>, rq)
                 ELSE CapsOut(c2, "raise", "VCPIOError", GET_VCP_TIMEOUT, read2,
                              <<data>>, rq)
        ELSE LET c2 == [c1 EXCEPT !.offset = echoed]
             IN  IF n >= loop_count_limit
                 THEN CapsOut(c2, "raise", "VCPIOError", GET_VCP_TIMEOUT, read2,
                              <<data>>, rq)
                 ELSE CapsOut(c2, "return", "none", GET_VCP_TIMEOUT, read2, <<data>>, rq)

\* one pass of the while loop of LinuxVCP.get_vcp_capabilities, and what follows
\* the loop when this pass leaves it.  status: "more" (next pass), "return", "raise"
LinuxVCP_caps_round(c, time, policy, r) ==
    LET n == c.loop_count + 1
        c1 == [c EXCEPT !.loop_count = n]
        data == CapabilitiesRequestMessage(c.offset)
        wrote == [NoIO EXCEPT !.writes = 1]
        read1 == [NoIO EXCEPT !.writes = 1, !.reads = 1]
        read2 == [NoIO EXCEPT !.writes = 1, !.reads = 2]
        rq == <<[op |-> "caps", at |-> time]>>
        length == CASE r.badlen = "short" -> 2
                    [] r.badlen = "long" -> 36
                    [] OTHER -> 3 + Len(r.frag)
        frag_len == length - 3
        echoed == IF r.echo = "same" THEN c.offset ELSE 0
    IN  IF r.wr = "fail"
        THEN CapsOut(c1, "raise", "VCPIOError", 0, wrote, <<>>,
                     <<[op |-> "caps", at |-> NoMax]>>)
        ELSE IF r.rd = "fail_header"
        THEN CapsOut(c1, "raise", "VCPIOError", GET_VCP_TIMEOUT, read1, <<data>>, rq)
        ELSE IF r.rd = "fail_payload"
        THEN CapsOut(c1, "raise", "VCPIOError", GET_VCP_TIMEOUT, read2, <<data>>, rq)
        ELSE IF ~valid_length(length)
        THEN CapsOut(c1, "raise", "VCPIOError", GET_VCP_TIMEOUT, read2, <<data>>, rq)
        ELSE IF ~r.ckok /\ policy = "strict"
        THEN CapsOut(c1, "raise", "VCPIOError", GET_VCP_TIMEOUT, read2, <<data>>, rq)
        ELSE IF r.code # GET_VCP_CAPS_REPLY
        THEN CapsOut(c1, "raise", "VCPIOError", GET_VCP_TIMEOUT, read2, <<data>>, rq)
        ELSE IF frag_len > 0
        THEN LET c2 == [c1 EXCEPT !.caps_str = append_fragment(@, r.frag),
                                  !.offset = echoed + frag_len]
             IN  IF n < loop_count_limit
                 THEN CapsOut(c2, "more", "none", GET_VCP_TIMEOUT, read2, <<data>>, rq)
                 ELSE CapsOut(c2, "raise", "VCPIOError", GET_VCP_TIMEOUT, read2,
                              <<data>>, rq)
        ELSE LET c2 == [c1 EXCEPT !.offset = echoed]
             IN  IF n >= loop_count_limit
                 THEN CapsOut(c2, "raise", "VCPIOError", GET_VCP_TIMEOUT, read2,
                              <<data>>, rq)
                 ELSE CapsOut(c2, "return", "none", GET_VCP_TIMEOUT, read2, <<data>>, rq)

\* capability strings a Windows monitor hands back in this model
CapStrings == {<<>>, <<97>>, <<97, 97>>}

\* WindowsVCP.get_vcp_capabilities: GetCapabilitiesStringLength, then
\* CapabilitiesRequestAndCapabilitiesReply unless the length is 0
WindowsVCP_get_vcp_capabilities(v, e, str) ==
    IF v.handle = 0
    THEN [vcp |-> v, exc |-> "VCPError", str |-> <<>>, io |-> NoIO]
    ELSE IF e.get = "ok"
    THEN [vcp |-> v, exc |-> "none", str |-> str,
          io |-> [NoIO EXCEPT !.writes = 1, !.reads = 1]]
    ELSE [vcp |-> v, exc |-> "VCPError", str |-> <<>>, io |-> [NoIO EXCEPT !.writes = 1]]

\* the Capabilities object _parse_capabilities builds; here: the string it was parsed from
NoCaps == [cached |-> FALSE, str |-> <<>>]

Parsed(caps_str) == [cached |-> TRUE, str |-> caps_str]

Last2(s) == IF Len(s) > 2 THEN SubSeq(s, Len(s) - 1, Len(s)) ELSE s

(* ------------------- capability string parser -------------------------- *)
\* A capability string is kept as the sequence of the matches that
\* cap_pattern.scan_string finds in it.  A match is a key and its group; an
\* item of a group is a word (the sequence of its characters) or a nested
\* group of words.
Word(chars) == [kind |-> "word", text |-> chars, sub |-> <<>>]

Group(words) == [kind |-> "group", text |-> <<>>, sub |-> words]

Match(key, items) == [key |-> key, group |-> items]

\* Python values: None, and the strings that as_list() hands back
None == <<"None">>

PyStr(chars) == [type |-> "str", text |-> chars, int |-> 0]

\* int(x, 16) for one character
HexChars == {"0", "1", "2", "3", "4", "5", "6", "7", "8", "9",
             "A", "B", "C", "D", "E", "F", "a", "b", "c", "d", "e", "f"}

HexDigit(ch) ==
    CASE ch = "0" -> 0 [] ch = "1" -> 1 [] ch = "2" -> 2 [] ch = "3" -> 3
      [] ch = "4" -> 4 [] ch = "5" -> 5 [] ch = "6" -> 6 [] ch = "7" -> 7
      [] ch = "8" -> 8 [] ch = "9" -> 9
      [] ch \in {"A", "a"} -> 10 [] ch \in {"B", "b"} -> 11
      [] ch \in {"C", "c"} -> 12 [] ch \in {"D", "d"} -> 13
      [] ch \in {"E", "e"} -> 14 [] ch \in {"F", "f"} -> 15

IsHex(chars) == chars # <<>> /\ \A i \in 1..Len(chars) : chars[i] \in HexChars

RECURSIVE HexFold(_, _)
HexFold(acc, chars) ==
    IF chars = <<>> THEN acc ELSE HexFold(acc * 16 + HexDigit(Head(chars)), Tail(chars))

\* int(chars, 16) of a word of hexadecimal digits
int16(chars) == HexFold(0, chars)

\* the members of VCPDefinitions in this model
Registry == {DEGAUSS, LUMINANCE, BACKLIGHT_LEVEL_WHITE}

RegistryCodes == {d.value : d \in Registry}

\* mutant of from_value: no code is found
from_value_none(value) == [exc |-> "ValueError", def |-> DEGAUSS]

\* VCPDefinitions.from_value
from_value(value) ==
    IF \E d \in Registry : d.value = value
    THEN [exc |-> "none", def |-> CHOOSE d \in Registry : d.value = value]
    ELSE [exc |-> "ValueError", def |-> DEGAUSS]

\* an element of the list vcps: a member of VCPDefinitions, whose list of values
\* is the one of the registry (reg), or a definition made for this entry,
\* with a list of values of its own
RegistryEntry(d) == [obj |-> "registry", def |-> d, values |-> <<>>]

OwnEntry(d) == [obj |-> "own", def |-> d, values |-> <<>>]

\* the strings of vcp_item.as_list()
RECURSIVE as_list(_)
as_list(words) ==
    IF words = <<>> THEN <<>> ELSE <<PyStr(Head(words).text)>> \o as_list(Tail(words))

\* the locals of _parse_capabilities, the values lists of the registry, and the
\* exception that ended it
ParseState(reg) ==
    [exc |-> "none", protocol |-> None, type |-> None, model |-> None,
     mccs_version |-> None, cmds |-> <<>>, vcps |-> <<>>, reg |-> reg]

\* last_definition.values.extend(vcp_item.as_list())
extend_values(a, words) ==
    LET last == a.vcps[Len(a.vcps)]
    IN  IF last.obj = "registry"
        THEN [a EXCEPT !.reg[last.def.value] = @ \o as_list(words)]
        ELSE [a EXCEPT !.vcps[Len(a.vcps)].values = @ \o as_list(words)]

\* the loop over the items of a vcp group; has_last: last_definition is set
RECURSIVE parse_vcp_items(_, _, _)
parse_vcp_items(items, a, has_last) ==
    IF items = <<>> THEN a
    ELSE LET item == Head(items)
         IN  IF item.kind = "group" /\ has_last
             THEN parse_vcp_items(Tail(items), extend_values(a, item.sub), TRUE)
             ELSE IF item.kind = "group" THEN [a EXCEPT !.exc = "TypeError"]
             ELSE IF ~IsHex(item.text) THEN [a EXCEPT !.exc = "ValueError"]
             ELSE LET code == int16(item.text)
                      known == from_value(code)
                      entry == IF known.exc = "none" THEN RegistryEntry(known.def)
                               ELSE OwnEntry(UnknownDefinition(item.text, code))
                  IN  parse_vcp_items(Tail(items), [a EXCEPT !.vcps = Append(@, entry)],
                                      TRUE)

\* the loop over the items of a cmds group
RECURSIVE parse_cmds(_, _)
parse_cmds(items, a) ==
    IF items = <<>> THEN a
    ELSE IF Head(items).kind = "group" THEN [a EXCEPT !.exc = "TypeError"]
    ELSE IF ~IsHex(Head(items).text) THEN [a EXCEPT !.exc = "ValueError"]
    ELSE parse_cmds(Tail(items), [a EXCEPT !.cmds = Append(@, int16(Head(items).text))])

\* result[1][0] as the fields keep it: the text of a word
first_value(group) == group[1].text

\* the body of the loop over the matches: value = result[1][0] is taken for
\* every match, before the key is looked at
parse_match(m, a) ==
    IF m.group = <<>> THEN [a EXCEPT !.exc = "IndexError"]
    ELSE CASE m.key = "prot" -> [a EXCEPT !.protocol = first_value(m.group)]
           [] m.key = "type" -> [a EXCEPT !.type = first_value(m.group)]
           [] m.key = "model" -> [a EXCEPT !.model = first_value(m.group)]
           [] m.key = "mccs_ver" -> [a EXCEPT !.mccs_version = first_value(m.group)]
           [] m.key = "cmds" -> parse_cmds(m.group, a)
           [] m.key = "vcp" -> parse_vcp_items(m.group, a, FALSE)
           [] OTHER -> a

RECURSIVE parse_matches(_, _)
parse_matches(ms, a) ==
    IF ms = <<>> \/ a.exc # "none" THEN a
    ELSE parse_matches(Tail(ms), parse_match(Head(ms), a))

\* x or ""
or_empty(x) == IF x = None THEN <<>> ELSE x

\* no Capabilities object
NoCapabilities ==
    [protocol |-> <<>>, type |-> <<>>, model |-> <<>>, mccs_version |-> <<>>,
     vcps |-> <<>>, vcp_names |-> <<>>, built |-> FALSE]

\* _parse_capabilities(caps_str) with the registry's values lists as they are
\* (reg): the exception it raises or the Capabilities it returns, and the
\* registry's values lists after it
parse_capabilities(caps_str, reg) ==
    LET a == parse_matches(caps_str, ParseState(reg))
    IN  [exc |-> a.exc, reg |-> a.reg,
         caps |-> IF a.exc # "none" THEN NoCapabilities
                  ELSE [protocol |-> or_empty(a.protocol), type |-> or_empty(a.type),
                        model |-> or_empty(a.model),
                        mccs_version |-> or_empty(a.mccs_version),
                        vcps |-> a.vcps, vcp_names |-> <<>>, built |-> TRUE]]

\* the values of an entry, and a Capabilities object as it reads, while the
\* registry's values lists are reg
ValuesOf(entry, reg) ==
    IF entry.obj = "registry" THEN reg[entry.def.value] ELSE entry.values

Read(c, reg) ==
    [c EXCEPT !.vcps = [i \in 1..Len(c.vcps) |->
                           [def |-> c.vcps[i].def, values |-> ValuesOf(c.vcps[i], reg)]]]

\* the values lists of the members of VCPDefinitions as the module defines
\* them: no member is given values
NoValues == [c \in RegistryCodes |-> <<>>]

\* the monitor.Monitor objects of the process
Monitors == {"A", "B"}

(* ----------------------- objects as constructed ------------------------ *)
\* LinuxVCP.__init__: fd = 0, last_set = None
LinuxVCP_init == [fd |-> 0, handle |-> 0, last_set |-> NoMax, held |-> 0]

\* WindowsVCP.__init__: handle = None
WindowsVCP_init == [fd |-> 0, handle |-> 0, last_set |-> NoMax, held |-> 0]

\* the codes a Monitor of this model is asked about
AllCodes == Codes \cup {BACKLIGHT_LEVEL_WHITE.value}

\* mccs.Monitor.__init__: code_maximum = {}, _in_ctx = False, _capabilities = None
mccs_Monitor_init(v) ==
    [vcp |-> v, code_maximum |-> [c \in AllCodes |-> NoMax], in_ctx |-> FALSE,
     capabilities |-> NoCaps]

\* nothing listed, nothing enumerated yet
NoDevices == [enum |-> "ok", list |-> <<>>]

NotListed == [op |-> "none", exc |-> "none", vcps |-> <<>>, monitors |-> <<>>]

\* class attributes of TestDisplayManager: _backlight_max, _starting_backlight,
\* _pause_backlight
DefaultBacklight == 100

\* TestDisplayManager.__init__: _current_index = 0, _display = None, _steps = []
\* (a list of its own), the widget not shown, and the class attributes
TestDisplayManager_init ==
    [current_index |-> 0, steps |-> "own", display |-> "None", is_paused |-> FALSE,
     visible |-> FALSE, backlight_max |-> DefaultBacklight,
     starting_backlight |-> DefaultBacklight, pause_backlight |-> DefaultBacklight]

\* a panel with a Monitor nobody has used
NewDisplay(level, maximum) ==
    [monitor |-> mccs_Monitor_init(LinuxVCP_init), level |-> level, maximum |-> maximum]

\* no operation of the runner yet
NoNote ==
    [op |-> "none", exc |-> "none", gets |-> 0, asked |-> <<>>, written |-> <<>>,
     range_errors |-> 0, signals |-> <<>>, caught |-> <<>>, baseline |-> NoMax,
     baseline_max |-> NoMax, started |-> FALSE]

\* the variables of the enumeration and of the test runner, where they are not used
AppIdle ==
    /\ devices = NoDevices
    /\ found = NotListed
    /\ steps = <<>>
    /\ manager = TestDisplayManager_init
    /\ display = NewDisplay(0, 0)
    /\ note = NoNote

(* ------------------- mccs.Monitor: scoped session ---------------------- *)
\* mccs.Monitor.__enter__: self.vcp.__enter__(), then _in_ctx = True
mccs_Monitor_enter(res) ==
    LET en == VCP_enter(vcp, res)
    IN  [vcp |-> en.vcp, in_ctx |-> IF en.exc = "none" THEN TRUE ELSE in_ctx,
         exc |-> en.exc, io |-> en.io]

\* mccs.Monitor.__exit__: self.vcp.__exit__(...), finally _in_ctx = False
mccs_Monitor_exit(res, inflight) ==
    LET x == VCP_exit(vcp, res, inflight)
    IN  [vcp |-> x.vcp, in_ctx |-> FALSE, exc |-> x.exc, io |-> x.io]

\* mutant of mccs_capabilities_gate: the cached object is not looked at
mccs_capabilities_gate_nocache == IF ~in_ctx THEN "assert" ELSE "fetch"

\* mccs.Monitor.capabilities: a cached object is returned as it is; otherwise
\* get_vcp_capabilities runs, which asserts the context
mccs_capabilities_gate ==
    IF cap_cache.cached THEN "cached" ELSE IF ~in_ctx THEN "assert" ELSE "fetch"

\* monitor.Monitor.capabilities
monitor_capabilities_gate == IF cap_cache.cached THEN "cached" ELSE "fetch"

(* ----------------------------- actions --------------------------------- *)
Init ==
    /\ platform \in {"linux", "win32"}
    /\ facade \in {"mccs", "monitor"}
    /\ CHECKSUM_ERRORS \in IF platform = "linux" THEN {"ignore", "warning", "strict"}
                           ELSE {"ignore"}
    /\ in_ctx = FALSE
    /\ code_maximum = [c \in Codes |-> NoMax]
    /\ cap_cache = NoCaps
    /\ vcp = [fd |-> 0, handle |-> 0, last_set |-> NoMax, held |-> 0]
    /\ now = Epoch
    /\ pc = "idle"
    /\ caps = [offset |-> 0, loop_count |-> 0, caps_str |-> <<>>]
    /\ call = [op |-> "none", code |-> 0, value |-> 0]
    /\ result = [exc |-> "none", ret |-> NoMax]
    /\ io = NoIO
    /\ frames = <<>>
    /\ requests = <<>>
    /\ reply = NoAnswer
    /\ resolved = [c \in Codes |-> NoMax]
    /\ registry = NoValues
    /\ text = <<>>
    /\ caches = [m \in Monitors |-> NoCapabilities]
    /\ parses = <<>>
    /\ caught = "none"
    /\ AppIdle

\* the caller is between two calls and within the time horizon of the model
CallerReady == pc = "idle" /\ now - Epoch < MaxTime

\* the caller waits for one command period (only LinuxVCP looks at the clock)
Tick ==
    /\ UNCHANGED <<parser_vars, enum_vars, runner_vars>>
    /\ CallerReady /\ platform = "linux"
    /\ now' = now + CMD_RATE
    /\ UNCHANGED <<platform, facade, CHECKSUM_ERRORS, in_ctx, code_maximum, cap_cache,
                   vcp, pc, caps, call, result, io, frames, requests, reply, resolved>>

\* the state after a facade method with outcome o, called as c
Apply(o, c, a) ==
    /\ UNCHANGED <<parser_vars, enum_vars, runner_vars>>
    /\ reply' = a
    /\ resolved' = IF c.op = "maximum" /\ o.exc = "none" /\ resolved[c.code] = NoMax
                   THEN [resolved EXCEPT ![c.code] = o.ret] ELSE resolved
    /\ vcp' = o.vcp
    /\ code_maximum' = o.cm
    /\ result' = [exc |-> o.exc, ret |-> o.ret]
    /\ io' = o.io
    /\ frames' = o.frames
    /\ requests' = Last2(requests \o o.reqs)
    /\ call' = c
    /\ UNCHANGED <<platform, facade, CHECKSUM_ERRORS, in_ctx, cap_cache, now, pc, caps>>

\* with monitor: (mccs.Monitor only; the caller does not nest the with blocks)
Enter ==
    /\ UNCHANGED <<parser_vars, enum_vars, runner_vars>>
    /\ CallerReady /\ facade = "mccs" /\ ~in_ctx
    /\ \E res \in EnterResults :
          LET o == mccs_Monitor_enter(res)
          IN  /\ vcp' = o.vcp
              /\ in_ctx' = o.in_ctx
              /\ result' = [exc |-> o.exc, ret |-> NoMax]
              /\ io' = o.io
              /\ requests' = IF o.exc = "none" THEN <<>> ELSE requests
    /\ call' = [op |-> "enter", code |-> 0, value |-> 0]
    /\ frames' = <<>>
    /\ reply' = NoAnswer
    /\ UNCHANGED <<platform, facade, CHECKSUM_ERRORS, code_maximum, cap_cache, now, pc,
                   caps, resolved>>

\* the with block ends, normally or because the call before raised
Exit ==
    /\ UNCHANGED <<parser_vars, enum_vars, runner_vars>>
    /\ CallerReady /\ facade = "mccs" /\ in_ctx
    /\ \E res \in {"ok", "fail"}, inflight \in {FALSE, result.exc # "none"} :
          LET o == mccs_Monitor_exit(res, inflight)
          IN  /\ vcp' = o.vcp
              /\ in_ctx' = o.in_ctx
              /\ result' = [exc |-> o.exc, ret |-> NoMax]
              /\ io' = o.io
              /\ call' = [op |-> "exit", code |-> 0, value |-> IF inflight THEN 1 ELSE 0]
    /\ frames' = <<>>
    /\ reply' = NoAnswer
    /\ UNCHANGED <<platform, facade, CHECKSUM_ERRORS, code_maximum, cap_cache, now, pc,
                   caps, requests, resolved>>

\* the answers to the Get VCP Feature request of _get_vcp_value(d)
Answers(d, e) ==
    IF platform = "linux" /\ readable(d) /\ e.enter = "ok" THEN LinuxAnswers
    ELSE {ApiAnswer(e)}

GetEnv(d) ==
    IF readable(d) THEN ReadEnv(platform, facade, Replies(platform)) ELSE {Env0}

MaxEnv(d) ==
    IF readable(d) /\ code_maximum[d.value] = NoMax
    THEN ReadEnv(platform, facade, MaxReplies(platform)) ELSE {Env0}

SetEnv(d) ==
    IF ~writeable(d) THEN {Env0}
    ELSE IF d.type = "CONTINUOUS" /\ code_maximum[d.value] = NoMax
    THEN FetchWriteEnv(platform, facade)
    ELSE WriteEnv(platform, facade)

\* monitor._get_vcp_value(d), e.g. monitor.luminance
Get ==
    /\ CallerReady
    /\ \E d \in Definitions :
        \E e \in GetEnv(d) :
          \E a \in Answers(d, e) :
            Apply(Monitor_get_vcp_value(d, e),
                  [op |-> "get", code |-> d.value, value |-> 0], a)

\* monitor._set_vcp_value(d, value), e.g. monitor.luminance = value
Set ==
    /\ CallerReady
    /\ \E d \in Definitions, value \in 0..MaxValue :
        \E e \in SetEnv(d) :
          Apply(Monitor_set_vcp_value(d, value, e),
                [op |-> "set", code |-> d.value, value |-> value], NoAnswer)

\* monitor._get_vcp_maximum(d), e.g. monitor.luminance_maximum
Maximum ==
    /\ CallerReady
    /\ \E d \in Definitions :
        \E e \in MaxEnv(d) :
          Apply(Monitor_get_vcp_maximum(d, e),
                [op |-> "maximum", code |-> d.value, value |-> 0], ApiAnswer(e))

NoStep(v) == [vcp |-> v, exc |-> "none", io |-> NoIO]

\* monitor.capabilities: the whole property, except that on Linux it stops
\* before the first pass of the loop of get_vcp_capabilities
Capabilities ==
    /\ UNCHANGED <<parser_vars, enum_vars, runner_vars>>
    /\ CallerReady
    /\ call' = [op |-> "capabilities", code |-> 0, value |-> 0]
    /\ frames' = <<>>
    /\ \E e \in ReadEnv(platform, facade, CapsReplies(platform)), str \in CapStrings :
          LET gate == IF facade = "mccs" THEN mccs_capabilities_gate
                      ELSE monitor_capabilities_gate
              en == IF facade = "monitor" THEN VCP_enter(vcp, e.enter) ELSE NoStep(vcp)
          IN  IF gate # "fetch"
              THEN /\ result' = [exc |-> IF gate = "assert" THEN "AssertionError"
                                         ELSE "none", ret |-> NoMax]
                   /\ io' = NoIO
                   /\ UNCHANGED <<vcp, cap_cache, now, pc, caps>>
              ELSE IF en.exc # "none"
              THEN /\ result' = [exc |-> en.exc, ret |-> NoMax]
                   /\ vcp' = en.vcp
                   /\ io' = en.io
                   /\ UNCHANGED <<cap_cache, now, pc, caps>>
              ELSE IF platform = "win32"
              THEN LET g == WindowsVCP_get_vcp_capabilities(en.vcp, e, str)
                       x == IF facade = "monitor"
                            THEN VCP_exit(g.vcp, e.close, g.exc # "none")
                            ELSE NoStep(g.vcp)
                   IN  /\ vcp' = x.vcp
                       /\ cap_cache' = IF g.exc = "none" THEN Parsed(g.str) ELSE cap_cache
                       /\ result' = [exc |-> IF g.exc # "none" THEN g.exc ELSE x.exc,
                                     ret |-> NoMax]
                       /\ io' = AddIO(en.io, AddIO(g.io, x.io))
                       /\ UNCHANGED <<now, pc, caps>>
              ELSE /\ vcp' = en.vcp
                   /\ now' = now + rate_limt(en.vcp.last_set, now)
                   /\ caps' = [offset |-> 0, loop_count |-> 0, caps_str |-> <<>>]
                   /\ pc' = "caps"
                   /\ result' = [exc |-> "none", ret |-> NoMax]
                   /\ io' = en.io
                   /\ UNCHANGED cap_cache
    /\ reply' = NoAnswer
    /\ UNCHANGED <<platform, facade, CHECKSUM_ERRORS, in_ctx, code_maximum, requests,
                   resolved>>

\* one pass of the loop of LinuxVCP.get_vcp_capabilities; when the method ends
\* with it, the rest of monitor.capabilities
CapsRound ==
    /\ UNCHANGED <<parser_vars, enum_vars, runner_vars>>
    /\ pc = "caps"
    /\ \E r \in RoundEnvAt(caps.loop_count) :
          LET o == LinuxVCP_caps_round(caps, now, CHECKSUM_ERRORS, r)
              x == IF o.status # "more" /\ facade = "monitor"
                   THEN VCP_exit(vcp, "ok", o.exc # "none")
                   ELSE NoStep(vcp)
          IN  /\ caps' = IF o.status = "more" THEN o.caps
                         ELSE [offset |-> 0, loop_count |-> 0, caps_str |-> <<>>]
              /\ now' = now + o.dt
              /\ io' = AddIO(io, AddIO(o.io, x.io))
              /\ frames' = o.frames
              /\ requests' = Last2(requests \o o.reqs)
              /\ pc' = IF o.status = "more" THEN "caps" ELSE "idle"
              /\ result' = [exc |-> o.exc, ret |-> NoMax]
              /\ cap_cache' = IF o.status = "return" THEN Parsed(o.caps.caps_str)
                              ELSE cap_cache
              /\ vcp' = x.vcp
              /\ reply' = CapsAnswer(r)
    /\ UNCHANGED <<platform, facade, CHECKSUM_ERRORS, in_ctx, code_maximum, call,
                   resolved>>

Next ==
    \/ Tick
    \/ Enter
    \/ Exit
    \/ Get
    \/ Set
    \/ Maximum
    \/ Capabilities
    \/ CapsRound

Spec == Init /\ [][Next]_vars

(* ----------------- the frame encoders, on their own --------------------- *)
\* feature codes the encoders are called with
CodecCodes == {1, 16, 255}

\* one call of an encoder: no monitor, no session
InitCodec ==
    /\ platform = "linux"
    /\ facade = "mccs"
    /\ CHECKSUM_ERRORS = "ignore"
    /\ in_ctx = FALSE
    /\ code_maximum = [c \in Codes |-> NoMax]
    /\ cap_cache = NoCaps
    /\ vcp = [fd |-> 0, handle |-> 0, last_set |-> NoMax, held |-> 0]
    /\ now = Epoch
    /\ pc = "codec"
    /\ caps = [offset |-> 0, loop_count |-> 0, caps_str |-> <<>>]
    /\ call \in {[op |-> "set", code |-> c, value |-> v] : c \in CodecCodes, v \in 0..MaxWord}
               \cup {[op |-> "get", code |-> c, value |-> 0] : c \in CodecCodes}
    /\ result = [exc |-> "none", ret |-> NoMax]
    /\ io = NoIO
    /\ frames = <<>>
    /\ requests = <<>>
    /\ reply = NoAnswer
    /\ resolved = [c \in Codes |-> NoMax]
    /\ registry = NoValues
    /\ text = <<>>
    /\ caches = [m \in Monitors |-> NoCapabilities]
    /\ parses = <<>>
    /\ caught = "none"
    /\ AppIdle

\* the message set_vcp_feature / get_vcp_feature builds for the call
Encode ==
    /\ UNCHANGED <<parser_vars, enum_vars, runner_vars>>
    /\ pc = "codec"
    /\ frames' = <<IF call.op = "set" THEN SetVcpFeatureMessage(call.code, call.value)
                   ELSE GetVcpFeatureMessage(call.code)>>
    /\ pc' = "encoded"
    /\ UNCHANGED <<platform, facade, CHECKSUM_ERRORS, in_ctx, code_maximum, cap_cache,
                   vcp, now, caps, call, result, io, requests, reply, resolved>>

\* one bit of one byte of the message is inverted on the way
FlipBit ==
    /\ UNCHANGED <<parser_vars, enum_vars, runner_vars>>
    /\ pc = "encoded"
    /\ \E i \in 1..Len(frames[1]), b \in 0..7 :
          frames' = <<[frames[1] EXCEPT ![i] = BitXor(@, 2^b)]>>
    /\ pc' = "flipped"
    /\ UNCHANGED <<platform, facade, CHECKSUM_ERRORS, in_ctx, code_maximum, cap_cache,
                   vcp, now, caps, call, result, io, requests, reply, resolved>>

NextCodec ==
    \/ Encode
    \/ FlipBit

SpecCodec == InitCodec /\ [][NextCodec]_vars

(* ------------- monitor.Monitor: capabilities and supports_vcp ------------ *)
\* except VCPError: the exception classes of vcp_abc.py
IsVCPError(exc) == exc \in {"VCPError", "VCPIOError", "VCPPermissionError"}

\* the while loop of LinuxVCP.get_vcp_capabilities against a monitor that
\* answers round by round as rounds says, and goes on answering as the last says
RECURSIVE caps_rounds(_, _, _, _)
caps_rounds(c, time, policy, rounds) ==
    LET o == LinuxVCP_caps_round(c, time, policy, Head(rounds))
    IN  IF o.status # "more"
        THEN [exc |-> o.exc, str |-> IF o.status = "return" THEN o.caps.caps_str ELSE <<>>,
              dt |-> o.dt, io |-> o.io]
        ELSE LET rest == caps_rounds(o.caps, time + o.dt, policy,
                                     IF Len(rounds) > 1 THEN Tail(rounds) ELSE rounds)
             IN  [rest EXCEPT !.dt = @ + o.dt, !.io = AddIO(o.io, @)]

\* LinuxVCP.get_vcp_capabilities, as a whole
LinuxVCP_get_vcp_capabilities(v, time, policy, rounds) ==
    LET wait == rate_limt(v.last_set, time)
        r == caps_rounds([offset |-> 0, loop_count |-> 0, caps_str |-> <<>>],
                         time + wait, policy, rounds)
    IN  [vcp |-> v, exc |-> r.exc, str |-> r.str, io |-> r.io, dt |-> wait + r.dt]

VCP_get_vcp_capabilities(v, time, policy, e, rounds, str) ==
    IF platform = "linux" THEN LinuxVCP_get_vcp_capabilities(v, time, policy, rounds)
    ELSE LET g == WindowsVCP_get_vcp_capabilities(v, e, str)
         IN  [vcp |-> g.vcp, exc |-> g.exc, str |-> g.str, io |-> g.io, dt |-> 0]

\* the outcome of monitor.Monitor.capabilities
CapsResult(exc, cache, reg, parsed, v, i, dt) ==
    [exc |-> exc, cache |-> cache, reg |-> reg, parsed |-> parsed, vcp |-> v, io |-> i,
     dt |-> dt]

\* what a call of _parse_capabilities hands to its caller: the exception, or the
\* Capabilities object as it reads when the call returns
Returned(p) == [exc |-> p.exc, caps |-> Read(p.caps, p.reg)]

\* monitor.Monitor.capabilities of the object whose _capabilities is cache:
\* with self.vcp: get_vcp_capabilities(), _parse_capabilities(), assignment
monitor_capabilities(cache, reg, v, time, policy, e, rounds, str) ==
    IF cache.built THEN CapsResult("none", cache, reg, <<>>, v, NoIO, 0)
    ELSE LET en == VCP_enter(v, e.enter)
         IN  IF en.exc # "none"
             THEN CapsResult(en.exc, cache, reg, <<>>, en.vcp, en.io, 0)
             ELSE LET g == VCP_get_vcp_capabilities(en.vcp, time, policy, e, rounds, str)
                  IN  IF g.exc # "none"
                      THEN LET x == VCP_exit(g.vcp, e.close, TRUE)
                           IN  CapsResult(g.exc, cache, reg, <<>>, x.vcp,
                                          AddIO(en.io, AddIO(g.io, x.io)), g.dt)
                      ELSE LET q == parse_capabilities(g.str, reg)
                               x == VCP_exit(g.vcp, e.close, q.exc # "none")
                           IN  CapsResult(IF q.exc # "none" THEN q.exc ELSE x.exc,
                                          IF q.exc # "none" THEN cache ELSE q.caps,
                                          q.reg, <<Returned(q)>>, x.vcp,
                                          AddIO(en.io, AddIO(g.io, x.io)), g.dt)

\* mutant of contains: every code is found
contains_any(vcps, code) == TRUE

\* code in capabilities.vcps: VCPDefinition.__eq__ compares the codes
contains(vcps, code) == \E i \in 1..Len(vcps) : vcps[i].def.value = code

\* monitor.Monitor.supports_vcp(code), given the outcome c of self.capabilities
monitor_supports_vcp(c, code) ==
    IF c.exc = "none"
    THEN [exc |-> "none", ret |-> IF contains(c.cache.vcps, code) THEN "True" ELSE "False",
          caught |-> "none"]
    ELSE IF IsVCPError(c.exc)
    THEN [exc |-> "none", ret |-> "False", caught |-> c.exc]
    ELSE [exc |-> c.exc, ret |-> "None", caught |-> "none"]

(* ---------------- the parser and supports_vcp, on their own -------------- *)
MaxParses == 2

\* key(value) tokens of a capability string: two protocols, a vcp group
\* with a registered code (0x10) and an unregistered one (0x14), each followed
\* by a group, and the unregistered one again; a key the parser does not know;
\* an empty vcp group
Sample ==
    <<Match("prot", <<Word(<<"m", "o", "n", "i", "t", "o", "r">>)>>),
      Match("vcp", <<Word(<<"1", "0">>),
                     Group(<<Word(<<"0", "5">>), Word(<<"0", "8">>)>>),
                     Word(<<"1", "4">>),
                     Group(<<Word(<<"0", "1">>), Word(<<"0", "5">>), Word(<<"0", "8">>)>>),
                     Word(<<"1", "4">>)>>),
      Match("mswhql", <<Word(<<"1">>)>>),
      Match("prot", <<Word(<<"d", "i", "s", "p", "l", "a", "y">>)>>),
      Match("vcp", <<>>)>>

\* the tokens of s at the positions in keep, in their order
RECURSIVE Pick(_, _, _)
Pick(s, keep, i) ==
    IF i > Len(s) THEN <<>>
    ELSE (IF i \in keep THEN <<s[i]>> ELSE <<>>) \o Pick(s, keep, i + 1)

\* the capability strings of this specification: Sample with any of its tokens
\* left out
Texts == {Pick(Sample, keep, 1) : keep \in SUBSET (1..Len(Sample))}

\* how a monitor on the I2C bus answers a retrieval of the string str: in two
\* rounds, not at all, or with a wrong checksum
TextRounds(str) ==
    {<<[Round("ok", "ok", "none") EXCEPT !.frag = str], Round("ok", "ok", "none")>>,
     <<Round("fail", "ok", "none")>>,
     <<[Round("ok", "ok", "none") EXCEPT !.ckok = FALSE]>>}

\* the courses an access to capabilities can take: none when the object is
\* cached; otherwise the open fails, or the exchange and the close go as
\* the operating system and the monitor have it
Course(e, rounds) == [e |-> e, rounds |-> rounds]

Courses(cache, p, str) ==
    IF cache.built THEN {Course(Env0, <<Round("ok", "ok", "none")>>)}
    ELSE {Course(MkEnv(en, "ok", "ok", "ok", NoReply), <<Round("ok", "ok", "none")>>) :
             en \in IF p = "linux" THEN {"open_perm", "open_err"} ELSE {"open_err"}}
         \cup IF p = "linux"
              THEN {Course(Env0, rounds) : rounds \in TextRounds(str)}
              ELSE {Course(MkEnv("ok", "ok", cl, "ok", r), <<Round("ok", "ok", "none")>>) :
                       cl \in Closes(p, "monitor"), r \in CapsReplies(p)}

InitParse ==
    /\ platform \in {"linux", "win32"}
    /\ facade = "monitor"
    /\ CHECKSUM_ERRORS = IF platform = "linux" THEN "strict" ELSE "ignore"
    /\ in_ctx = FALSE
    /\ code_maximum = [c \in Codes |-> NoMax]
    /\ cap_cache = NoCaps
    /\ vcp = [fd |-> 0, handle |-> 0, last_set |-> NoMax, held |-> 0]
    /\ now = Epoch
    /\ pc = "idle"
    /\ caps = [offset |-> 0, loop_count |-> 0, caps_str |-> <<>>]
    /\ call = [op |-> "none", code |-> 0, on |-> "A"]
    /\ result = [exc |-> "none", ret |-> "None"]
    /\ io = NoIO
    /\ frames = <<>>
    /\ requests = <<>>
    /\ reply = NoAnswer
    /\ resolved = [c \in Codes |-> NoMax]
    /\ registry = NoValues
    /\ text \in Texts
    /\ caches = [m \in Monitors |-> NoCapabilities]
    /\ parses = <<>>
    /\ caught = "none"
    /\ AppIdle

\* the state after self.capabilities of monitor m ended as c
ApplyCaps(m, c) ==
    /\ caches' = [caches EXCEPT ![m] = c.cache]
    /\ registry' = c.reg
    /\ parses' = parses \o c.parsed
    /\ vcp' = c.vcp
    /\ now' = now + c.dt
    /\ io' = c.io
    /\ UNCHANGED <<platform, facade, CHECKSUM_ERRORS, in_ctx, code_maximum, cap_cache, pc,
                   caps, frames, requests, reply, resolved, text, enum_vars, runner_vars>>

\* the caller may start an access to the capabilities of monitor m
MayResolve(m) == CallerReady /\ (caches[m].built \/ Len(parses) < MaxParses)

\* m.supports_vcp(code)
Supports ==
    \E m \in Monitors, code \in Codes :
      /\ MayResolve(m)
      /\ \E k \in Courses(caches[m], platform, text) :
            \E c \in {monitor_capabilities(caches[m], registry, vcp, now, CHECKSUM_ERRORS,
                                          k.e, k.rounds, text)} :
              \E s \in {monitor_supports_vcp(c, code)} :
                /\ ApplyCaps(m, c)
                /\ result' = [exc |-> s.exc, ret |-> s.ret]
                /\ caught' = s.caught
      /\ call' = [op |-> "supports", code |-> code, on |-> m]

\* _parse_capabilities(text), called on its own
Parse ==
    /\ Len(parses) < MaxParses
    /\ \E q \in {parse_capabilities(text, registry)} :
           /\ registry' = q.reg
           /\ parses' = Append(parses, Returned(q))
           /\ result' = [exc |-> q.exc, ret |-> "None"]
    /\ call' = [op |-> "parse", code |-> 0, on |-> "A"]
    /\ caught' = "none"
    /\ io' = NoIO
    /\ UNCHANGED <<platform, facade, CHECKSUM_ERRORS, in_ctx, code_maximum, cap_cache, vcp,
                   now, pc, caps, frames, requests, reply, resolved, text, caches,
                   enum_vars, runner_vars>>

NextParse ==
    \/ Supports
    \/ Parse

SpecParse == InitParse /\ [][NextParse]_vars

(* ------------------- the enumeration of the monitors -------------------- *)
\* at most this many devices are listed
MaxDevices == 3

\* the variables of the facade's specification, at rest
CoreIdle ==
    /\ facade = "mccs"
    /\ CHECKSUM_ERRORS = "ignore"
    /\ in_ctx = FALSE
    /\ code_maximum = [c \in Codes |-> NoMax]
    /\ cap_cache = NoCaps
    /\ vcp = LinuxVCP_init
    /\ now = Epoch
    /\ pc = "idle"
    /\ caps = [offset |-> 0, loop_count |-> 0, caps_str |-> <<>>]
    /\ call = [op |-> "none", code |-> 0, value |-> 0]
    /\ result = [exc |-> "none", ret |-> NoMax]
    /\ io = NoIO
    /\ frames = <<>>
    /\ requests = <<>>
    /\ reply = NoAnswer
    /\ resolved = [c \in Codes |-> NoMax]
    /\ registry = NoValues
    /\ text = <<>>
    /\ caches = [m \in Monitors |-> NoCapabilities]
    /\ parses = <<>>
    /\ caught = "none"

core_vars ==
    <<facade, CHECKSUM_ERRORS, in_ctx, code_maximum, cap_cache, vcp, now, pc, caps, call,
      result, io, frames, requests, reply, resolved, parser_vars>>

\* the sequences over s of length n
RECURSIVE SeqsOf(_, _)
SeqsOf(s, n) ==
    IF n = 0 THEN {<<>>}
    ELSE {Append(q, x) : q \in SeqsOf(s, n - 1), x \in s}

\* the body of the for loop of LinuxVCP.get_vcps from candidate i on: the VCP
\* is made, opened and closed by `with vcp: pass`; OSError and VCPIOError
\* are passed over, any other exception leaves the method
RECURSIVE LinuxVCP_probe(_, _, _)
LinuxVCP_probe(list, i, vcps) ==
    IF i > Len(list) THEN [exc |-> "none", vcps |-> vcps]
    ELSE LET en == LinuxVCP_enter(LinuxVCP_init, list[i])
         IN  IF en.exc = "none"
             THEN LinuxVCP_probe(list, i + 1,
                                 Append(vcps, [dev |-> i,
                                               vcp |-> LinuxVCP_exit(en.vcp, "ok",
                                                                     FALSE).vcp]))
             ELSE IF en.exc \in {"OSError", "VCPIOError"}
             THEN LinuxVCP_probe(list, i + 1, vcps)
             ELSE [exc |-> en.exc, vcps |-> <<>>]

\* LinuxVCP.get_vcps
LinuxVCP_get_vcps(d) == LinuxVCP_probe(d.list, 1, <<>>)

\* WindowsVCP.get_vcps: EnumDisplayMonitors, then a WindowsVCP for each
\* HMONITOR collected; none of them is opened
WindowsVCP_get_vcps(d) ==
    IF d.enum # "ok" THEN [exc |-> "VCPError", vcps |-> <<>>]
    ELSE [exc |-> "none",
          vcps |-> [i \in 1..Len(d.list) |-> [dev |-> i, vcp |-> WindowsVCP_init]]]

VCP_get_vcps(d) ==
    IF platform = "linux" THEN LinuxVCP_get_vcps(d) ELSE WindowsVCP_get_vcps(d)

\* get_monitors: [Monitor(v) for v in VCP.get_vcps()]
get_monitors(d) ==
    LET r == VCP_get_vcps(d)
    IN  [exc |-> r.exc, vcps |-> r.vcps,
         monitors |-> [i \in 1..Len(r.vcps) |->
                          [dev |-> r.vcps[i].dev,
                           monitor |-> mccs_Monitor_init(r.vcps[i].vcp)]]]

InitEnum ==
    /\ platform \in {"linux", "win32"}
    /\ CoreIdle
    /\ \E n \in 0..MaxDevices :
          devices \in IF platform = "linux"
                      THEN [enum : {"ok"}, list : SeqsOf(EnterResults, n)]
                      ELSE [enum : {"ok", "fail"}, list : SeqsOf({"ok", "open_err"}, n)]
    /\ found = NotListed
    /\ steps = <<>>
    /\ manager = TestDisplayManager_init
    /\ display = NewDisplay(0, 0)
    /\ note = NoNote

\* VCP.get_vcps()
GetVcps ==
    /\ \E r \in {VCP_get_vcps(devices)} :
          found' = [op |-> "get_vcps", exc |-> r.exc, vcps |-> r.vcps, monitors |-> <<>>]
    /\ UNCHANGED <<platform, core_vars, devices, runner_vars>>

\* get_monitors()
GetMonitors ==
    /\ \E r \in {get_monitors(devices)} :
          found' = [op |-> "get_monitors", exc |-> r.exc, vcps |-> r.vcps,
                    monitors |-> r.monitors]
    /\ UNCHANGED <<platform, core_vars, devices, runner_vars>>

NextEnum ==
    \/ GetVcps
    \/ GetMonitors

SpecEnum == InitEnum /\ [][NextEnum]_vars

(* ---------------------------- the test runner --------------------------- *)
\* the table holds at most this many steps
MaxSteps == 2

\* the panel reports a backlight maximum of at most this
MaxLevel == 2

\* TestStep.backlight of the steps of this model: a percentage
StepLevels == {1, DefaultBacklight}

\* the keys whose release eventFilter sees
Keys == {"Escape", "Space", "Right", "Left", "Up", "Down", "AltF4", "other"}

Min2(a, b) == IF a < b THEN a ELSE b

Max2(a, b) == IF a > b THEN a ELSE b

\* what an operation of the runner meets: whether get_test_image finds the
\* image of the step, and what the transport answers to the open, to the Get VCP
\* Feature exchanges (get2: the second of start), to Set VCP Feature and to the
\* close; at most one of them goes wrong. kind: the display has a Monitor
\* ("vcp") or not; asks: the operation gets past its guards
RunnerEnv(kind, asks) ==
    LET fine == [image |-> TRUE, enter |-> "ok", get |-> "ok", get2 |-> "ok",
                 set |-> "ok", close |-> "ok"]
    IN  IF ~asks \/ kind = "None" THEN {fine}
        ELSE IF kind = "plain" THEN {fine, [fine EXCEPT !.image = FALSE]}
        ELSE IF platform = "linux"
        THEN {fine, [fine EXCEPT !.image = FALSE], [fine EXCEPT !.enter = "open_err"]}
        ELSE {fine, [fine EXCEPT !.image = FALSE]}
             \cup {[fine EXCEPT ![f] = "fail"] :
                     f \in {"enter", "get", "get2", "set", "close"}}

\* the state an operation of the runner works on: the manager, the Monitor of
\* the display and the panel, and what the operation has done so far
Run(mg, d) ==
    [mg |-> mg, mon |-> d.monitor, level |-> d.level, maximum |-> d.maximum,
     exc |-> "none", gets |-> 0, asked |-> <<>>, written |-> <<>>, range_errors |-> 0,
     signals |-> <<>>, caught |-> <<>>, read_backlight |-> NoMax, read_maximum |-> NoMax]

\* the answers as the VCP takes them; the panel reports its level and its maximum
EnvOf(e, s, get) ==
    MkEnv(e.enter, "ok", e.close, e.set, [get |-> get, cur |-> s.level, max |-> s.maximum])

\* with display.vcp: mccs.Monitor.__enter__
display_vcp_enter(m, res) ==
    LET en == VCP_enter(m.vcp, res)
    IN  [m |-> [m EXCEPT !.vcp = en.vcp, !.in_ctx = IF en.exc = "none" THEN TRUE ELSE @],
         exc |-> en.exc]

\* mccs.Monitor.__exit__
display_vcp_exit(m, res, inflight) ==
    LET x == VCP_exit(m.vcp, res, inflight)
    IN  [m |-> [m EXCEPT !.vcp = x.vcp, !.in_ctx = FALSE], exc |-> x.exc]

\* display.vcp.backlight: _get_vcp_value(BACKLIGHT_LEVEL_WHITE)
display_vcp_backlight(m, e) ==
    IF ~m.in_ctx THEN [m |-> m, exc |-> "AssertionError", ret |-> NoMax, gets |-> 0]
    ELSE LET g == VCP_get_vcp_feature(m.vcp, BACKLIGHT_LEVEL_WHITE.value, e)
         IN  [m |-> [m EXCEPT !.vcp = g.vcp], exc |-> g.exc, ret |-> g.cur,
              gets |-> g.io.gets]

\* display.vcp.backlight_maximum: _get_vcp_maximum(BACKLIGHT_LEVEL_WHITE)
display_vcp_backlight_maximum(m, e) ==
    LET c == BACKLIGHT_LEVEL_WHITE.value
    IN  IF ~m.in_ctx THEN [m |-> m, exc |-> "AssertionError", ret |-> NoMax, gets |-> 0]
        ELSE IF m.code_maximum[c] # NoMax
        THEN [m |-> m, exc |-> "none", ret |-> m.code_maximum[c], gets |-> 0]
        ELSE LET g == VCP_get_vcp_feature(m.vcp, c, e)
             IN  IF g.exc # "none"
                 THEN [m |-> [m EXCEPT !.vcp = g.vcp], exc |-> g.exc, ret |-> NoMax,
                       gets |-> g.io.gets]
                 ELSE [m |-> [m EXCEPT !.vcp = g.vcp, !.code_maximum[c] = g.max],
                       exc |-> "none", ret |-> g.max, gets |-> g.io.gets]

\* _set_vcp_value past the lookup mx of the maximum: the range check, then
\* Set VCP Feature
set_checked(mx, value, e) ==
    IF mx.exc # "none"
    THEN [m |-> mx.m, exc |-> mx.exc, gets |-> mx.gets, wrote |-> FALSE]
    ELSE IF value > mx.ret
    THEN [m |-> mx.m, exc |-> "ValueError", gets |-> mx.gets, wrote |-> FALSE]
    ELSE LET w == VCP_set_vcp_feature(mx.m.vcp, BACKLIGHT_LEVEL_WHITE.value, value, e)
         IN  [m |-> [mx.m EXCEPT !.vcp = w.vcp], exc |-> w.exc, gets |-> mx.gets,
              wrote |-> w.exc = "none"]

\* display.vcp.backlight = value: _set_vcp_value(BACKLIGHT_LEVEL_WHITE, value)
display_vcp_set_backlight(m, value, e) ==
    IF ~m.in_ctx THEN [m |-> m, exc |-> "AssertionError", gets |-> 0, wrote |-> FALSE]
    ELSE set_checked(display_vcp_backlight_maximum(m, e), value, e)

\* self._steps: the list start was given, which is the table's own list
\* (TestDataTableModel.steps returns self._data), or the [] of __init__
Steps(mg, st) == IF mg.steps = "shared" THEN st ELSE <<>>

\* self.logger.debug / info / warning / error, when the operation gets to it:
\* TestDisplayManager has no attribute logger, the access raises AttributeError
logger(s) == IF s.exc # "none" THEN s ELSE [s EXCEPT !.exc = "AttributeError"]

\* self.statusChanged.emit() / self.stepChanged.emit(index), when the operation
\* gets to it
emit(s, signal) ==
    IF s.exc # "none" THEN s ELSE [s EXCEPT !.signals = Append(@, signal)]

\* with self._display.vcp as vcp: vcp.backlight = value; asked: the value was
\* handed to the Monitor
with_vcp_set_backlight(m, value, e) ==
    LET en == display_vcp_enter(m, e.enter)
        w == display_vcp_set_backlight(en.m, value, e)
        x == display_vcp_exit(w.m, e.close, w.exc # "none")
    IN  IF en.exc # "none"
        THEN [m |-> en.m, exc |-> en.exc, gets |-> 0, wrote |-> FALSE, asked |-> FALSE]
        ELSE [m |-> x.m, exc |-> IF w.exc # "none" THEN w.exc ELSE x.exc,
              gets |-> w.gets, wrote |-> w.wrote, asked |-> TRUE]

\* the try of _set_backlight after its with block ended as r: logger.debug
\* inside the try; whatever the try raises, except Exception calls logger.error
after_with(s, value, r) ==
    logger([s EXCEPT !.mon = r.m,
                     !.level = IF r.wrote THEN value ELSE @,
                     !.gets = @ + r.gets,
                     !.asked = IF r.asked THEN Append(@, value) ELSE @,
                     !.written = IF r.wrote THEN Append(@, value) ELSE @,
                     !.range_errors = IF r.exc = "ValueError" THEN @ + 1 ELSE @,
                     !.caught = Append(@, r.exc)])

\* TestDisplayManager._set_backlight
_set_backlight(s, backlight_percent, e) ==
    IF s.mg.display = "vcp"
    THEN LET effective_max == IF s.mg.backlight_max > 0 THEN s.mg.backlight_max
                              ELSE 100
             clamped_backlight == Max2(0, Min2(backlight_percent, effective_max))
         IN  after_with(s, clamped_backlight,
                        with_vcp_set_backlight(s.mon, clamped_backlight,
                                               EnvOf(e, s, e.get)))
    ELSE logger(s)

\* TestDisplayManager._update
_update(s, st, e) ==
    LET list == Steps(s.mg, st)
        i == s.mg.current_index
    IN  IF s.mg.display = "None" \/ ~(list # <<>> /\ 0 <= i /\ i < Len(list))
        THEN logger(s)
        ELSE IF ~e.image THEN logger(s)
        ELSE _set_backlight(s, IF s.mg.is_paused THEN s.mg.pause_backlight
                               ELSE list[i + 1], e)

\* TestDisplayManager.stop
stop(s, e) ==
    logger(_set_backlight([s EXCEPT !.mg.visible = FALSE, !.mg.is_paused = FALSE,
                                    !.signals = Append(@, "statusChanged")],
                          s.mg.starting_backlight, e))

\* the setter of TestDisplayManager.current_index
set_current_index(s, st, value, e) ==
    IF 0 <= value /\ value < Len(Steps(s.mg, st))
    THEN IF s.mg.current_index # value
         THEN emit(_update([s EXCEPT !.mg.current_index = value,
                                     !.mg.is_paused = FALSE], st, e),
                   "stepChanged")
         ELSE s
    ELSE IF value = Len(Steps(s.mg, st)) /\ value > 0 THEN stop(s, e)
    ELSE logger(s)

\* self._widget.showFullScreen(), when the operation gets to it
shown(s) == IF s.exc # "none" THEN s ELSE [s EXCEPT !.mg.visible = TRUE]

\* TestDisplayManager.start(display, steps); kind: whether the TestDisplay has
\* a Monitor ("vcp") or not ("plain")
start(s, st, kind, e) ==
    IF st = <<>> THEN logger(s)
    ELSE LET s1 == [s EXCEPT !.mg.current_index = 0, !.mg.display = kind,
                             !.mg.steps = "shared", !.mg.is_paused = FALSE]
         IN  IF kind = "vcp"
             THEN LET en == display_vcp_enter(s1.mon, e.enter)
                      g1 == display_vcp_backlight(en.m, EnvOf(e, s1, e.get))
                      s2 == [s1 EXCEPT !.mg.starting_backlight = g1.ret,
                                       !.gets = g1.gets, !.read_backlight = g1.ret]
                      g2 == display_vcp_backlight_maximum(g1.m, EnvOf(e, s1, e.get2))
                      s3 == [s2 EXCEPT !.mg.backlight_max = g2.ret,
                                       !.mg.pause_backlight =
                                           IF g2.ret > 0 THEN g2.ret
                                           ELSE s2.mg.starting_backlight,
                                       !.gets = @ + g2.gets, !.read_maximum = g2.ret]
                  IN  IF en.exc # "none"
                      THEN logger([s1 EXCEPT !.mon = en.m, !.caught = <<en.exc>>])
                      ELSE IF g1.exc # "none"
                      THEN logger([s1 EXCEPT
                                     !.mon = display_vcp_exit(g1.m, e.close, TRUE).m,
                                     !.gets = g1.gets, !.caught = <<g1.exc>>])
                      ELSE IF g2.exc # "none"
                      THEN logger([s2 EXCEPT
                                     !.mon = display_vcp_exit(g2.m, e.close, TRUE).m,
                                     !.gets = @ + g2.gets, !.caught = <<g2.exc>>])
                      ELSE logger([s3 EXCEPT
                                     !.mon = display_vcp_exit(g2.m, e.close, TRUE).m,
                                     !.caught = <<"AttributeError">>])
             ELSE emit(shown(_update([s1 EXCEPT
                                        !.mg.starting_backlight = DefaultBacklight,
                                        !.mg.backlight_max = DefaultBacklight,
                                        !.mg.pause_backlight = DefaultBacklight],
                                     st, e)),
                       "statusChanged")

\* TestDisplayManager.pause
pause(s, st, e) ==
    IF ~s.mg.visible \/ s.mg.is_paused THEN s
    ELSE logger(emit(_update([s EXCEPT !.mg.is_paused = TRUE], st, e),
                     "statusChanged"))

\* TestDisplayManager.resume
resume(s, st, e) ==
    IF ~s.mg.visible \/ ~s.mg.is_paused THEN s
    ELSE logger(emit(_update([s EXCEPT !.mg.is_paused = FALSE], st, e),
                     "statusChanged"))

\* TestDisplayManager.next
next(s, st, e) ==
    IF s.mg.current_index < Len(Steps(s.mg, st)) - 1
    THEN set_current_index(s, st, s.mg.current_index + 1, e)
    ELSE logger(s)

\* TestDisplayManager.previous
previous(s, st, e) ==
    IF s.mg.current_index > 0
    THEN set_current_index(s, st, s.mg.current_index - 1, e)
    ELSE logger(s)

\* TestDisplayManager.eventFilter on the release of a key: every branch
\* starts with a call of self.logger
eventFilter(s, key) ==
    IF ~s.mg.visible THEN s
    ELSE IF key \in {"Escape", "Space"} THEN logger(s)
    ELSE IF ~s.mg.is_paused /\ key \in {"Right", "Left"} THEN logger(s)
    ELSE IF s.mg.is_paused /\ s.mg.display = "vcp"
    THEN IF key = "Up"
         THEN logger([s EXCEPT !.mg.pause_backlight =
                         Min2(IF s.mg.backlight_max > 0 THEN s.mg.backlight_max ELSE 100,
                              @ + 1)])
         ELSE IF key = "Down"
         THEN logger([s EXCEPT !.mg.pause_backlight = Max2(0, @ - 1)])
         ELSE s
    ELSE IF key = "AltF4" THEN logger(s)
    ELSE s

\* MainWindow.on_current_step_changed with the table's current row
on_current_step_changed(s, st, row, e) ==
    IF row >= 0 /\ s.mg.visible THEN set_current_index(s, st, row, e) ELSE s

InitRunner ==
    /\ platform \in {"linux", "win32"}
    /\ CoreIdle
    /\ devices = NoDevices
    /\ found = NotListed
    /\ steps = <<>>
    /\ manager = TestDisplayManager_init
    /\ \E maximum \in 0..MaxLevel, level \in 0..MaxLevel :
          /\ level <= maximum
          /\ display = NewDisplay(level, maximum)
    /\ note = NoNote

\* the state after an operation of the runner that ended as s; the note keeps
\* what the last start read, and whether a start was made that no stop followed
Finish(op, s, started) ==
    /\ manager' = s.mg
    /\ display' = [monitor |-> s.mon, level |-> s.level, maximum |-> s.maximum]
    /\ note' = [op |-> op, exc |-> s.exc, gets |-> s.gets, asked |-> s.asked,
                written |-> s.written, range_errors |-> s.range_errors,
                signals |-> s.signals, caught |-> s.caught,
                baseline |-> IF op = "start" THEN s.read_backlight ELSE note.baseline,
                baseline_max |-> IF op = "start" THEN s.read_maximum
                                 ELSE note.baseline_max,
                started |-> started]
    /\ UNCHANGED <<platform, core_vars, enum_vars>>

\* MainWindow.on_start_test_triggered, past its guards: start(display, steps())
Start ==
    \E kind \in {"plain", "vcp"} :
     \E e \in RunnerEnv(kind, steps # <<>>) :
      \E s \in {start(Run(manager, display), steps, kind, e)} :
        /\ Finish("start", s, steps # <<>>)
        /\ UNCHANGED steps

\* MainWindow.on_stop_test_triggered / closeEvent: stop()
Stop ==
    \E e \in RunnerEnv(manager.display, manager.display = "vcp") :
      \E s \in {stop(Run(manager, display), e)} :
        /\ Finish("stop", s, FALSE)
        /\ UNCHANGED steps

\* MainWindow.on_pause_test_triggered: pause()
Pause ==
    \E e \in RunnerEnv(manager.display, manager.visible) :
      \E s \in {pause(Run(manager, display), steps, e)} :
        /\ Finish("pause", s, note.started)
        /\ UNCHANGED steps

\* resume()
Resume ==
    \E e \in RunnerEnv(manager.display, manager.visible) :
      \E s \in {resume(Run(manager, display), steps, e)} :
        /\ Finish("resume", s, note.started)
        /\ UNCHANGED steps

\* next()
NextStep ==
    \E e \in RunnerEnv(manager.display, TRUE) :
      \E s \in {next(Run(manager, display), steps, e)} :
        /\ Finish("next", s, note.started)
        /\ UNCHANGED steps

\* previous()
PreviousStep ==
    \E e \in RunnerEnv(manager.display, TRUE) :
      \E s \in {previous(Run(manager, display), steps, e)} :
        /\ Finish("previous", s, note.started)
        /\ UNCHANGED steps

\* a key is released
KeyRelease ==
    \E key \in Keys :
      \E s \in {eventFilter(Run(manager, display), key)} :
        /\ Finish("key", s, note.started)
        /\ UNCHANGED steps

\* the user selects a row of the table
SelectRow ==
    \E row \in 0..(Len(steps) - 1), e \in RunnerEnv(manager.display, manager.visible) :
      \E s \in {on_current_step_changed(Run(manager, display), steps, row, e)} :
        /\ Finish("select", s, note.started)
        /\ UNCHANGED steps

\* MainWindow.on_add_step_clicked: TestDataTableModel.addStep appends to the
\* list, setCurrentRow makes the new row current; the backlight of the step is
\* what the user sets it to in the table
AddStep ==
    /\ Len(steps) < MaxSteps
    /\ \E backlight \in StepLevels, e \in RunnerEnv(manager.display, manager.visible) :
          LET st == Append(steps, backlight)
          IN  \E s \in {on_current_step_changed(Run(manager, display), st, Len(steps), e)} :
                /\ steps' = st
                /\ Finish("add", s, note.started)

\* MainWindow.on_remove_step_clicked: TestDataTableModel.removeStep deletes
\* from the list; the view then makes some row current, or none (-1)
RemoveStep ==
    \E index \in 1..Len(steps), e \in RunnerEnv(manager.display, manager.visible) :
       LET st == SubSeq(steps, 1, index - 1) \o SubSeq(steps, index + 1, Len(steps))
       IN  \E row \in -1..(Len(st) - 1) :
             \E s \in {on_current_step_changed(Run(manager, display), st, row, e)} :
               /\ steps' = st
               /\ Finish("remove", s, note.started)

\* MainWindow.on_new_test_triggered: TestDataTableModel.clear empties the list
ClearSteps ==
    /\ steps # <<>>
    /\ steps' = <<>>
    /\ Finish("clear", Run(manager, display), note.started)

NextRunner ==
    \/ Start
    \/ Stop
    \/ Pause
    \/ Resume
    \/ NextStep
    \/ PreviousStep
    \/ KeyRelease
    \/ SelectRow
    \/ AddStep
    \/ RemoveStep
    \/ ClearSteps

SpecRunner == InitRunner /\ [][NextRunner]_vars

(* ------------------------------ claims --------------------------------- *)
FeatureOps == {"get", "set", "maximum", "capabilities"}

\* the facade's own rejections, and the failures of opening the transport
FacadeErrors == {"AssertionError", "TypeError", "ValueError"}

OpenErrors == {"VCPIOError", "VCPPermissionError"}

\* the last call was made inside a scoped open of mccs.Monitor
InSession == facade = "mccs" /\ in_ctx

\* the last call was made on a Closed mccs.Monitor and has returned
CalledClosed == facade = "mccs" /\ pc = "idle" /\ ~in_ctx /\ call.op \in FeatureOps

\* the step is a call of the facade operation op (Tick alone leaves call as it
\* is while it changes the state, and it moves the clock)
CallStep(op) == call'.op = op /\ now' = now

\* the XOR over the virtual destination byte and the frame's bytes before the
\* checksum reproduces the frame's checksum byte
VerifyChecksum(frame) ==
    XorFold(DDCCI_ADDR * 2, SubSeq(frame, 1, Len(frame) - 1)) = frame[Len(frame)]

\* C1, as the specification states it: every get, set, maximum and capabilities
\* operation invoked on a Closed Monitor fails immediately and performs no
\* transport read or write, also when the maximum or the capabilities are cached
\* from an earlier Open period.
C1_ClosedOperationFails ==
    CalledClosed => result.exc = "AssertionError" /\ io = NoIO /\ frames = <<>>

C3_SetFramesSpaced ==
    InSession /\ Len(requests) = 2 /\ requests[1].op = "set" /\ requests[2].op = "set"
        => /\ requests[1].at # NoMax
           /\ requests[2].at # NoMax
           /\ requests[2].at - requests[1].at >= CMD_RATE

\* C4, as the specification states it: every two consecutive request frames
\* written to the transport in one session (set, get, and the rounds of a
\* capabilities retrieval) are at least 50 ms apart.
C4_RequestFramesSpaced ==
    InSession /\ Len(requests) = 2 /\ requests[1].at # NoMax /\ requests[2].at # NoMax
        => requests[2].at - requests[1].at >= CMD_RATE

\* C5: a set of a continuous writeable feature whose maximum M is in the cache
\* (on an Open Monitor) ends with a range error and no transport operation when
\* value > M; when 0 <= value <= M it is not rejected, fetches nothing, and
\* issues exactly one Set-Feature, with which it succeeds unless the transport
\* itself fails.
C5_RangeEnforced ==
    [][\A d \in Definitions :
          /\ CallStep("set") /\ call'.code = d.value
          /\ writeable(d) /\ d.type = "CONTINUOUS" /\ code_maximum[d.value] # NoMax
          /\ facade = "mccs" => in_ctx
          => IF call'.value > code_maximum[d.value]
             THEN result'.exc = "ValueError" /\ io' = NoIO /\ frames' = <<>>
             ELSE /\ result'.exc \notin FacadeErrors
                  /\ io'.gets = 0 /\ io'.reads = 0
                  /\ io'.writes = io'.sets /\ io'.sets <= 1
                  /\ result'.exc \notin OpenErrors \cup {"VCPError"} => result'.exc = "none"
                  /\ result'.exc = "none" => io'.sets = 1]_vars

\* a set of value = M with M cached has succeeded with one Set-Feature
C5_Witness ==
    /\ call.op = "set" /\ call.code = LUMINANCE.value /\ result.exc = "none"
    /\ code_maximum[call.code] # NoMax /\ call.value = code_maximum[call.code]
    /\ io.gets = 0 /\ io.sets = 1

\* C6, as the specification states it: a set call that ends with a range error
\* writes no byte to the transport, also when the maximum is not yet cached.
C6_NoByteOnRangeError ==
    call.op = "set" /\ result.exc = "ValueError" => io.writes = 0 /\ frames = <<>>

\* C6, amended: a set call that ends with a range error issues no Set-Feature;
\* with the maximum cached it performs no transport operation at all, and
\* otherwise the only exchange is the one Get-Feature that resolves the maximum.
C6_NoSetOnRangeError ==
    call.op = "set" /\ result.exc = "ValueError"
        => /\ io.sets = 0
           /\ io.gets <= 1 /\ io.writes = io.gets /\ io.reads = io.gets
           /\ io.gets = 0 => io = NoIO

\* a set was rejected for its range after the maximum had to be fetched
C6_Witness ==
    call.op = "set" /\ result.exc = "ValueError" /\ io.gets = 1 /\ io.writes = 1

\* C7: on an Open Monitor, get and maximum of a feature that is not readable, and
\* set of a feature that is not writeable, fail with the access error (TypeError)
\* before any I/O: the VCP is not opened, read or written, and the max-value
\* cache is unchanged.
C7_AccessChecked ==
    [][\A d \in Definitions :
          /\ facade = "mccs" => in_ctx
          /\ call'.code = d.value
          /\ \/ (CallStep("get") \/ CallStep("maximum")) /\ ~readable(d)
             \/ CallStep("set") /\ ~writeable(d)
          => /\ result'.exc = "TypeError"
             /\ io' = NoIO /\ frames' = <<>>
             /\ UNCHANGED <<vcp, code_maximum>>]_vars

\* get of Degauss (write-only) on an Open Monitor was refused
C7_Witness ==
    /\ InSession /\ call.op = "get" /\ call.code = DEGAUSS.value
    /\ result.exc = "TypeError" /\ io = NoIO

\* the seven bytes of a Set-Feature message for code c and value v
SetFeatureFrame(c, v) ==
    LET six == <<81, 132, 3, c, v \div 256, v % 256>>
    IN  Append(six, XorFold(110, six))

\* C8, as the specification states it: a Set-Feature operation (a set call that
\* the facade does not reject, on a transport that opened) writes exactly the 7
\* bytes [0x51, 0x84, 0x03, c, v div 256, v mod 256, checksum].
C8_SetFeatureWritten ==
    platform = "linux" /\ pc = "idle" /\ call.op = "set"
    /\ result.exc \notin FacadeErrors \cup OpenErrors
        => frames # <<>> /\ frames[Len(frames)] = SetFeatureFrame(call.code, call.value)

\* C9: a frame built by the Set-Feature or Get-Feature encoder passes the
\* checksum verification, and the frame with any single bit flipped (header,
\* payload or checksum byte) fails it.
C9_ChecksumRoundTrip ==
    /\ pc = "encoded" => VerifyChecksum(frames[1])
    /\ pc = "flipped" => ~VerifyChecksum(frames[1])

\* the checksum byte of the Set-Feature frame for value 300 was flipped
C9_Witness ==
    /\ pc = "flipped" /\ call.op = "set" /\ call.value = MaxWord
    /\ frames[1][7] # SetVcpFeatureMessage(call.code, call.value)[7]
    /\ SubSeq(frames[1], 1, 6) = SubSeq(SetFeatureFrame(call.code, call.value), 1, 6)

\* C10, as the specification states it: the checksum byte of every message the
\* host writes (here: the request of every capabilities round) is the XOR of
\* 0x6E and the transmitted bytes before it, and 0x6E itself is not written.
C10_HostChecksumSeeded ==
    \A i \in 1..Len(frames) :
        pc # "codec" => VerifyChecksum(frames[i]) /\ frames[i][1] # DDCCI_ADDR * 2

\* a reply round of get_vcp_capabilities that is written and read without
\* error, with a length field inside 3..35, the reply code 0xE3 and a
\* matching checksum (whatever offset it echoes)
WellFormed(a) ==
    /\ a.kind = "caps" /\ a.wr = "ok" /\ a.rd = "ok" /\ a.badlen = "none"
    /\ a.code = GET_VCP_CAPS_REPLY /\ a.ckok

\* C11: with well-formed reply rounds, every round of get_vcp_capabilities sends
\* one request and no retrieval sends more than 40; a round with a non-empty
\* fragment appends it to the accumulated string and does not make the method
\* return; the round whose fragment is empty ends the retrieval (no request
\* follows it), and when the method returns there, which it does in any of
\* the first 39 rounds, it returns the string accumulated in the rounds before.
C11_StopsAfterEmptyRound ==
    [][pc = "caps" /\ WellFormed(reply')
          => /\ io'.writes = io.writes + 1 /\ io'.writes <= loop_count_limit
             /\ reply'.frag = <<>>
                   => /\ pc' = "idle"
                      /\ result'.exc = "none" => cap_cache' = Parsed(caps.caps_str)
                      /\ caps.loop_count + 1 < loop_count_limit => result'.exc = "none"
             /\ reply'.frag # <<>>
                   => /\ pc' = "caps" \/ result'.exc # "none"
                      /\ pc' = "caps" => caps'.caps_str = caps.caps_str \o reply'.frag]_vars

\* fragments of 32, 1 and 0 bytes have been received in three rounds
C11_Witness ==
    /\ platform = "linux" /\ pc = "idle" /\ call.op = "capabilities"
    /\ result.exc = "none" /\ io.writes = 3 /\ WellFormed(reply) /\ reply.frag = <<>>
    /\ cap_cache = Parsed(Fragment(32) \o Fragment(1))

\* C12, as the specification states it: a retrieval whose rounds are well-formed
\* fails with the protocol error exactly when none of its rounds, up to the
\* 40th, returned zero fragment bytes; if its last round returned zero fragment
\* bytes it returns the accumulated string.
C12_IncompleteOnlyWithoutTermination ==
    platform = "linux" /\ pc = "idle" /\ call.op = "capabilities" /\ WellFormed(reply)
        => (result.exc = "VCPIOError" <=> reply.frag # <<>>)

\* C13, as the specification states it: the request of every round carries, after
\* the command byte 0xF3, the number of fragment bytes received in the rounds
\* before as a big-endian 16-bit value, whatever the replies echoed.
C13_RunningOffset ==
    [][pc = "caps" /\ frames' # <<>>
          => /\ frames'[1][3] = GET_VCP_CAPS_CMD
             /\ frames'[1][4] * 256 + frames'[1][5] = Len(caps.caps_str)]_vars

\* C14: a reply round whose length field is outside 3..35 makes the retrieval
\* fail with VCPIOError, and nothing of it reaches the result; a round with a
\* length inside 3..35, the right reply code and a matching checksum is accepted
\* (in the first 39 rounds the method goes on or returns normally).
C14_LengthChecked ==
    [][pc = "caps" /\ reply'.wr = "ok" /\ reply'.rd = "ok"
          => /\ reply'.badlen # "none"
                   => /\ result'.exc = "VCPIOError" /\ pc' = "idle"
                      /\ cap_cache' = cap_cache
             /\ WellFormed(reply') /\ caps.loop_count + 1 < loop_count_limit
                   => result'.exc = "none"]_vars

\* the second round of a retrieval came with a length field of 36
C14_Witness ==
    /\ platform = "linux" /\ pc = "idle" /\ call.op = "capabilities"
    /\ reply.kind = "caps" /\ reply.badlen = "long" /\ reply.frag = Fragment(33)
    /\ result.exc = "VCPIOError" /\ io.writes = 2 /\ ~cap_cache.cached
\* the last call was a get on Linux that got as far as the VCP: the facade
\* accepted it and the transport was open
LinuxGot ==
    /\ platform = "linux" /\ pc = "idle" /\ call.op = "get" /\ reply.kind = "feature"
    /\ result.exc \notin FacadeErrors \cup OpenErrors

\* a Get VCP Feature reply with the reply code 0x02, the requested code echoed
\* and the result code 0
Decodable(a) == a.code = GET_VCP_REPLY /\ a.echo = "same" /\ a.result = 0

\* a Get VCP Feature reply that reports result code 1 and is in order otherwise
Unsupported(a) ==
    a.code = GET_VCP_REPLY /\ a.echo = "same" /\ a.result = 1 /\ a.ckok

\* C15, as the specification states it: a Get-Feature whose reply has a matching
\* checksum returns the current value of the reply exactly when the reply code
\* is 0x02, the echoed code is the requested one and the result code is 0; in
\* every other case it fails and returns no value.
C15_GetFeatureDecoded ==
    LinuxGot /\ reply.ckok
        => IF Decodable(reply) THEN result.exc = "none" /\ result.ret = reply.cur
           ELSE result.exc # "none" /\ result.ret = NoMax

\* C16, as the specification states it: a caller can tell a Get-Feature that was
\* answered with result code 1 from one that failed in another way: of two get
\* calls in a row on Linux, one answered with result code 1 and the other
\* failing for another reason, the errors differ, and the error for result
\* code 1 is not the generic I/O error.
C16_UnsupportedDistinct ==
    [][/\ LinuxGot /\ Unsupported(reply) => result.exc \notin {"none", "VCPIOError"}
       /\ LinuxGot /\ LinuxGot' /\ CallStep("get") /\ result'.exc # "none"
          /\ result.exc # "none" /\ (Unsupported(reply) # Unsupported(reply'))
             => result'.exc # result.exc]_vars

\* the round record a reply stands for, with a matching checksum
AsRound(a) ==
    [wr |-> a.wr, rd |-> a.rd, badlen |-> a.badlen, code |-> a.code, echo |-> a.echo,
     ckok |-> TRUE, frag |-> a.frag]

\* C17, as the specification states it: when the checksum byte of a reply does
\* not match, get-feature and get-capabilities fail with VCPIOError and yield
\* no value under policy strict; under ignore and warning they go on and end as
\* they do for the same reply with a matching checksum.
C17_ChecksumPolicy ==
    [][/\ pc = "caps" /\ reply'.wr = "ok" /\ reply'.rd = "ok" /\ reply'.badlen = "none"
          /\ ~reply'.ckok
             => IF CHECKSUM_ERRORS = "strict"
                THEN result'.exc = "VCPIOError" /\ pc' = "idle" /\ cap_cache' = cap_cache
                ELSE LET o == LinuxVCP_caps_round(caps, now, "strict", AsRound(reply'))
                     IN  /\ result'.exc = o.exc
                         /\ o.status = "more" => pc' = "caps" /\ caps' = o.caps
                         /\ o.status = "return"
                               => pc' = "idle" /\ cap_cache' = Parsed(o.caps.caps_str)
                         /\ o.status = "raise" => pc' = "idle" /\ cap_cache' = cap_cache
       /\ LinuxGot' /\ CallStep("get") /\ ~reply'.ckok
             => IF CHECKSUM_ERRORS = "strict"
                THEN result'.exc = "VCPIOError" /\ result'.ret = NoMax
                ELSE IF Decodable(reply')
                THEN result'.exc = "none" /\ result'.ret = reply'.cur
                ELSE result'.exc = "VCPIOError" /\ result'.ret = NoMax]_vars

\* C18, as the specification states it: a Get-Feature on Linux writes its request
\* frame, waits, and reads the reply in two reads (header, then payload and
\* checksum), the first of them not before 40 ms after the write.
C18_ReplyReadAfterWait ==
    LinuxGot
        => /\ requests # <<>> /\ requests[Len(requests)].op = "get"
           /\ requests[Len(requests)].at # NoMax
           /\ io.writes = 1 /\ io.reads - io.opens = 2
           /\ now - requests[Len(requests)].at >= GET_VCP_TIMEOUT
\* C19, as the specification states it: once maximum(feature) has succeeded, every
\* later maximum(feature) on the same object, whatever get, set, maximum, close
\* and re-open came between, returns the value of that first resolution and
\* performs no transport operation.
C19_MaximumStable ==
    [][\A d \in Definitions :
          /\ CallStep("maximum") /\ call'.code = d.value /\ resolved[d.value] # NoMax
          /\ facade = "mccs" => in_ctx
          => /\ result'.exc = "none" /\ result'.ret = resolved[d.value]
             /\ io' = NoIO /\ frames' = <<>>]_vars

\* C19, amended: once maximum(feature) has succeeded, every later
\* maximum(feature) returns the cached value and performs no transport
\* operation. An entry of the cache is never dropped, not by close and re-open
\* either; it keeps its value except when a get of that feature through
\* monitor.Monitor stores the maximum of its own reply in its place; with
\* mccs.Monitor the cached value stays the one first resolved.
C19_MaximumCached ==
    [][/\ \A d \in Definitions :
             /\ CallStep("maximum") /\ call'.code = d.value /\ resolved[d.value] # NoMax
             /\ facade = "mccs" => in_ctx
             => /\ result'.exc = "none" /\ result'.ret = code_maximum[d.value]
                /\ io' = NoIO /\ frames' = <<>>
                /\ code_maximum' = code_maximum
       /\ \A c \in Codes :
             code_maximum[c] # NoMax
             => /\ code_maximum'[c] # NoMax
                /\ code_maximum'[c] # code_maximum[c]
                      => /\ facade = "monitor" /\ CallStep("get") /\ call'.code = c
                         /\ code_maximum'[c] = reply'.max
                /\ facade = "mccs" /\ resolved[c] # NoMax => code_maximum'[c] = resolved[c]]_vars

\* a later maximum has returned, without any transport operation, a cached value
\* that is not the one first resolved
C19_Witness ==
    /\ pc = "idle" /\ call.op = "maximum" /\ call.code = LUMINANCE.value
    /\ result.exc = "none" /\ io = NoIO
    /\ resolved[call.code] # NoMax /\ result.ret # resolved[call.code]
    /\ result.ret = code_maximum[call.code]

\* C20, as the specification states it: a successful get of a continuous feature
\* leaves in the cache, for that feature's code, the maximum of its reply, and
\* a maximum or a set of that feature that follows it sends no Get-Feature
\* request; a get of a non-continuous feature leaves the cache as it was.
C20_GetFillsCache ==
    [][\A d \in Definitions :
          /\ CallStep("get") /\ call'.code = d.value /\ result'.exc = "none"
                => IF d.type = "CONTINUOUS"
                   THEN code_maximum' = [code_maximum EXCEPT ![d.value] = reply'.max]
                   ELSE code_maximum' = code_maximum
          /\ call.op = "get" /\ call.code = d.value /\ result.exc = "none"
             /\ d.type = "CONTINUOUS" /\ call'.code = d.value
             /\ (CallStep("maximum") \/ CallStep("set"))
                => io'.gets = 0]_vars

\* C21: capabilities is resolved once: when a Capabilities object is cached, no
\* step replaces or drops it (closing and re-opening the Monitor included), and
\* an access to capabilities returns it without an error, without any
\* transport operation and without entering the Get-Capabilities exchange.
C21_ResolvedOnce ==
    [][cap_cache.cached
          => /\ cap_cache' = cap_cache
             /\ pc' = "idle"
             /\ CallStep("capabilities")
                   => /\ result'.exc = "none" /\ io' = NoIO /\ frames' = <<>>
                      /\ requests' = requests]_vars

\* capabilities was read from the cache after the Monitor that fetched it over
\* the I2C bus was closed and opened again (opening empties the request log)
C21_Witness ==
    /\ facade = "mccs" /\ platform = "linux" /\ in_ctx /\ cap_cache.cached
    /\ call.op = "capabilities" /\ pc = "idle" /\ result.exc = "none"
    /\ io = NoIO /\ requests = <<>>

\* a Python int in a list of enumerated values
PyInt(n) == [type |-> "int", text |-> <<>>, int |-> n]

\* What the specification's grammar makes of the items of one vcp group: an
\* entry per code token, and the integer values of the tokens of a group for
\* the entry appended last.
RECURSIVE ExpectedItems(_, _)
ExpectedItems(items, acc) ==
    IF items = <<>> THEN acc
    ELSE LET item == Head(items)
         IN  IF item.kind = "word"
             THEN ExpectedItems(Tail(items),
                                Append(acc, [token |-> item.text, code |-> int16(item.text),
                                             values |-> <<>>]))
             ELSE IF acc = <<>> THEN ExpectedItems(Tail(items), acc)
             ELSE ExpectedItems(Tail(items),
                                [acc EXCEPT ![Len(acc)].values =
                                    @ \o [k \in 1..Len(item.sub) |->
                                              PyInt(int16(item.sub[k].text))]])

\* the supported features the specification derives from a capability string
RECURSIVE ExpectedVcps(_)
ExpectedVcps(ms) ==
    IF ms = <<>> THEN <<>>
    ELSE (IF Head(ms).key = "vcp" THEN ExpectedItems(Head(ms).group, <<>>) ELSE <<>>)
         \o ExpectedVcps(Tail(ms))

ExpectedCodes(ms) == {ExpectedVcps(ms)[j].code : j \in 1..Len(ExpectedVcps(ms))}

HasKey(ms, key) == \E i \in 1..Len(ms) : ms[i].key = key

\* the first token of ms with the key
FirstOf(ms, key) ==
    ms[CHOOSE i \in 1..Len(ms) : ms[i].key = key /\ \A j \in 1..(i - 1) : ms[j].key # key]

\* C22: a supports call whose capabilities were resolved without a failure returns
\* true exactly when the code of the feature is among the codes of the vcp
\* group of the monitor's capability string; a supports call on a Monitor
\* whose Capabilities are cached leaves every cached Capabilities object and
\* the enumerated values of its entries as they were.
C22_SupportsByCode ==
    [][call'.op = "supports" /\ result'.exc = "none" /\ caught' = "none"
          => /\ caches'[call'.on].built
             /\ result'.ret = IF call'.code \in ExpectedCodes(text) THEN "True" ELSE "False"
             /\ caches[call'.on].built
                   => /\ caches' = caches /\ registry' = registry
                      /\ io' = NoIO]_vars

\* a repeated supports call has answered true from the cached Capabilities
C22_Witness ==
    /\ call.op = "supports" /\ call.code = 20 /\ result = [exc |-> "none", ret |-> "True"]
    /\ caught = "none" /\ caches[call.on].built /\ io = NoIO

\* C23: a supports call never propagates an error, and it returns false when
\* resolving the capabilities failed.
C23_SupportsNeverRaises ==
    call.op = "supports"
    => /\ result.exc = "none"
       /\ ~caches[call.on].built => result.ret = "False"

\* C24: in the Capabilities a parse returns, the entries are those of the code
\* tokens, and each carries as enumerated values the integer values of the
\* tokens of the group that followed its code, in order, or none.
C24_EnumeratedValues ==
    \A i \in 1..Len(parses) :
       parses[i].exc = "none"
       => LET expected == ExpectedVcps(text)
              v == parses[i].caps.vcps
          IN  /\ Len(v) = Len(expected)
              /\ \A j \in 1..Len(v) : v[j].values = expected[j].values

\* C25: no parse raises; a field whose key the string lacks is "", and without
\* a code token supported_features is empty.
C25_ParserNeverRaises ==
    \A i \in 1..Len(parses) :
       /\ parses[i].exc = "none"
       /\ ~HasKey(text, "prot") => parses[i].caps.protocol = <<>>
       /\ ~HasKey(text, "type") => parses[i].caps.type = <<>>
       /\ ~HasKey(text, "model") => parses[i].caps.model = <<>>
       /\ ~HasKey(text, "mccs_ver") => parses[i].caps.mccs_version = <<>>
       /\ ExpectedVcps(text) = <<>> => parses[i].caps.vcps = <<>>

\* C26: a field whose key occurs in the string holds the value of the key's
\* first occurrence.
C26_FirstOccurrenceWins ==
    \A i \in 1..Len(parses) :
       parses[i].exc = "none"
       => /\ HasKey(text, "prot")
                => parses[i].caps.protocol = first_value(FirstOf(text, "prot").group)
          /\ HasKey(text, "type")
                => parses[i].caps.type = first_value(FirstOf(text, "type").group)
          /\ HasKey(text, "model")
                => parses[i].caps.model = first_value(FirstOf(text, "model").group)
          /\ HasKey(text, "mccs_ver")
                => parses[i].caps.mccs_version
                      = first_value(FirstOf(text, "mccs_ver").group)

\* C27: the Capabilities a parse returns have one entry per code token of the
\* vcp groups, in the order of the tokens, a repeated code once more; the
\* entry of a registered code is the definition of the registry, the entry of
\* any other code has that code, the name "VCP <token> (unknown)", no access
\* and the kind non-continuous.
C27_OneEntryPerCode ==
    \A i \in 1..Len(parses) :
       parses[i].exc = "none"
       => LET expected == ExpectedVcps(text)
              v == parses[i].caps.vcps
          IN  /\ Len(v) = Len(expected)
              /\ \A j \in 1..Len(v) :
                    v[j].def = IF expected[j].code \in RegistryCodes
                               THEN CHOOSE d \in Registry : d.value = expected[j].code
                               ELSE [name |-> <<"VCP ", expected[j].token, " (unknown)">>,
                                     value |-> expected[j].code, rw |-> {},
                                     type |-> "NONCONTINUOUS"]

\* a parse has returned entries for 10, 14 and 14 again: the registry's
\* luminance, and twice the definition made for the unregistered code
C27_Witness ==
    /\ call.op = "parse" /\ parses # <<>> /\ parses[1].exc = "none"
    /\ Len(parses[1].caps.vcps) = 3
    /\ parses[1].caps.vcps[1].def = LUMINANCE
    /\ parses[1].caps.vcps[2].def.value = 20
    /\ parses[1].caps.vcps[3].def = parses[1].caps.vcps[2].def

\* tokens with a key the parser does not know: a word, nothing, or a nested
\* group inside the parentheses
UnknownMatches ==
    {Match("mswhql", <<Word(<<"1">>)>>), Match("mswhql", <<>>),
     Match("mswhql", <<Group(<<Word(<<"1">>)>>)>>)}

InsertAt(ms, pos, m) == SubSeq(ms, 1, pos) \o <<m>> \o SubSeq(ms, pos + 1, Len(ms))

\* C28: the string with a token of an unknown key inserted anywhere parses to what
\* the string without it parses to, and raises nothing that the string without
\* it does not raise.
C28_UnknownKeysIgnored ==
    \A pos \in 0..Len(text), u \in UnknownMatches :
       Returned(parse_capabilities(InsertAt(text, pos, u), registry))
          = Returned(parse_capabilities(text, registry))

\* C29: an operation on one Monitor changes no definition of the registry and
\* nothing of what the cached Capabilities of any other Monitor read as, the
\* enumerated values of their entries included.
C29_NoSharedState ==
    [][call'.op = "supports"
          => /\ registry' = registry
             /\ \A n \in Monitors \ {call'.on} :
                   Read(caches'[n], registry') = Read(caches[n], registry)]_vars

\* C30: two parses of the same string return Capabilities that are equal field
\* by field, with the same entries in the same order and the same enumerated
\* values for every entry.
C30_ParseIdempotent ==
    \A i, j \in 1..Len(parses) :
       parses[i].exc = "none" /\ parses[j].exc = "none"
       => parses[i].caps = parses[j].caps

\* C33: on the I2C transport, with reads that succeed, a capabilities round that
\* wrote its request has read the header and the payload of the reply when it
\* goes on, returns or fails on the length, the checksum or the reply code; a
\* Get VCP Feature call that wrote requests has read two parts of a reply for
\* each of them.
C33_ReplyDrained ==
    [][platform = "linux"
          => /\ pc = "caps" /\ reply'.wr = "ok" /\ reply'.rd = "ok"
                   => /\ io'.writes = io.writes + 1
                      /\ io'.reads = io.reads + 2
             /\ CallStep("get") /\ reply'.rd = "ok" /\ io'.gets > 0
                   => io'.reads >= 2 * io'.gets]_vars

\* a round with a length field of 2 ended the retrieval after both reads
C33_Witness ==
    /\ platform = "linux" /\ pc = "idle" /\ call.op = "capabilities"
    /\ reply.kind = "caps" /\ reply.badlen = "short" /\ reply.rd = "ok"
    /\ result.exc = "VCPIOError" /\ io.writes = 1 /\ io.reads >= 2

\* C34: a set of a writeable non-continuous feature that the transport carries
\* out (the facade is open, and neither the open nor the write fails) writes
\* one Set-Feature frame for the value, whatever the value, sends no
\* Get-Feature request and leaves the cache of maxima as it was.
C34_NonContinuousUnchecked ==
    [][\A d \in Definitions :
          /\ CallStep("set") /\ call'.code = d.value
          /\ writeable(d) /\ d.type = "NONCONTINUOUS"
          /\ facade = "mccs" => in_ctx
          /\ ~IsVCPError(result'.exc)
          => /\ result'.exc = "none"
             /\ io'.sets = 1 /\ io'.gets = 0
             /\ code_maximum' = code_maximum]_vars

\* C39: a get, a maximum or a capabilities call that fails leaves the cache of
\* maxima and the cached Capabilities as they were before the call.
C39_FailureLeavesCaches ==
    [][call'.op \in {"get", "maximum", "capabilities"} /\ result'.exc # "none"
          => /\ code_maximum' = code_maximum
             /\ cap_cache' = cap_cache]_vars

\* the candidates whose open succeeds, in the order of the enumeration
Opening(list) ==
    SelectSeq([i \in 1..Len(list) |-> i], LAMBDA i : list[i] = "ok")

\* C31: on Linux get_vcps ends without an error, whatever way the candidates
\* fail to open, and returns the candidates whose open succeeded, in the
\* order of the enumeration.
C31_FailingCandidatesSkipped ==
    platform = "linux" /\ found.op = "get_vcps"
    => /\ found.exc = "none"
       /\ [k \in 1..Len(found.vcps) |-> found.vcps[k].dev] = Opening(devices.list)

\* C32: every Monitor get_monitors returns is closed: its VCP holds no
\* descriptor and no handle, it has no maximum and no Capabilities cached and
\* is in no session; there is one Monitor for each VCP the enumeration
\* returned, in the same order.
C32_ReturnedClosed ==
    found.op = "get_monitors" /\ found.exc = "none"
    => /\ Len(found.monitors) = Len(found.vcps)
       /\ platform = "linux" => Len(found.monitors) = Len(Opening(devices.list))
       /\ \A k \in 1..Len(found.monitors) :
             LET m == found.monitors[k].monitor
             IN  /\ found.monitors[k].dev = found.vcps[k].dev
                 /\ m.vcp = found.vcps[k].vcp
                 /\ m.vcp.fd = 0 /\ m.vcp.handle = 0 /\ m.vcp.held = 0
                 /\ \A c \in AllCodes : m.code_maximum[c] = NoMax
                 /\ ~m.capabilities.cached
                 /\ ~m.in_ctx

\* on Linux two of three devices opened, the one between them failed
C32_Witness ==
    /\ platform = "linux" /\ found.op = "get_monitors" /\ found.exc = "none"
    /\ devices.list = <<"ok", "wake_err", "ok">>
    /\ Len(found.monitors) = 2 /\ found.monitors[2].dev = 3

\* C35: with a transport that does not fail, a start on a display with a Monitor
\* reads the backlight of the panel and its maximum, with one exchange each at
\* most, no later operation of the run reads again, and a stop writes the
\* backlight read at start as its last value, which is then the level of the
\* panel.
C35_BaselineRestored ==
    LET transport_ok == \A k \in 1..Len(note.caught) : ~IsVCPError(note.caught[k])
    IN  manager.display = "vcp" /\ transport_ok
        => /\ note.op = "start" /\ note.started
                 => /\ note.baseline = display.level
                    /\ note.baseline_max = display.maximum
                    /\ manager.starting_backlight = display.level
                    /\ note.gets \in 1..2
           /\ note.op # "start" /\ note.baseline_max # NoMax => note.gets = 0
           /\ note.op = "stop" /\ note.baseline # NoMax
                 => /\ note.written = <<note.baseline>>
                    /\ display.level = note.baseline

\* C36: once a start has read the backlight maximum of a display with a Monitor,
\* the pause backlight is in 0..backlight_max, every value the runner hands to
\* the Monitor as the backlight is in 0..backlight_max as read at that start,
\* and no write of the runner is rejected as out of range.
C36_ClampedWorkingRange ==
    manager.display = "vcp" /\ note.baseline_max # NoMax
    => /\ manager.backlight_max = note.baseline_max
       /\ manager.pause_backlight \in 0..note.baseline_max
       /\ \A k \in 1..Len(note.asked) : note.asked[k] \in 0..note.baseline_max
       /\ note.range_errors = 0

\* C37: a pause of a runner that is not running or is paused, a resume of one
\* that is not running or is not paused, a next on the last step and a previous
\* on the first step return normally and leave the manager, the Monitor and
\* the panel as they were, with no backlight handed to the Monitor and no
\* signal emitted.
C37_GuardedNoOps ==
    [][\/ note'.op = "pause" /\ (~manager.visible \/ manager.is_paused)
       \/ note'.op = "resume" /\ (~manager.visible \/ ~manager.is_paused)
       \/ note'.op = "next"
             /\ manager.current_index >= Len(Steps(manager, steps)) - 1
       \/ note'.op = "previous" /\ manager.current_index <= 0
       => /\ note'.exc = "none"
          /\ manager' = manager
          /\ display' = display
          /\ note'.asked = <<>>
          /\ note'.signals = <<>>]_vars

====
